---- MODULE Spec2Model ----
(***************************************************************************)
(* Model of the address batch geocoder: the sliding-window RateLimiter     *)
(* (utils/rate_limiter.py), the AIS and TomTom lookups (utils/ais_lookup.py,*)
(* utils/tomtom_lookup.py) and the staging of records in process_csv       *)
(* (geocoder.py).  Each component has its own specification over the       *)
(* shared variables; the variables of the other components stay parked.    *)
(***************************************************************************)
EXTENDS Integers, Sequences, FiniteSets, TLC

VARIABLES
    \* ---- RateLimiter
    clock,      \* time.monotonic(), in ticks
    _calls,     \* RateLimiter._calls: deque of admission stamps
    _lock,      \* RateLimiter._lock: 0 when free, else the holding thread
    rl_pc,      \* per thread: position in wait()
    now,        \* per thread: the local `now` read under the lock
    wake_at,    \* per thread: earliest instant time.sleep() may return
    waits,      \* per thread: number of wait() calls started
    admitted,   \* history: every stamp ever appended to _calls, in order
    \* ---- one call of ais_lookup or tomtom_lookup
    lk,         \* which lookup is running: "ais", "tomtom" or "off"
    via,        \* the function the caller entered the lookup by
    lk_pc,      \* position inside the lookup
    args,       \* the arguments of the call
    attempt,    \* attempt number under @retry
    response,   \* response of the search request of this attempt
    coords,     \* make_coordinate_lookups: coordinate pairs still to look up
    out_data,   \* make_coordinate_lookups: responses collected so far
    result,     \* the dict returned by the lookup
    error,      \* the exception raised by the current attempt ("" if none)
    sent,       \* requests the current attempt has sent
    admits,     \* RateLimiter.wait() calls that returned in the current attempt
    \* ---- process_csv
    pl_pc,            \* the stage process_csv is at
    config,           \* the config file, as yaml.safe_load returns it
    address_fields,   \* the dict find_address_fields returned
    ais_enrichment_fields,           \* build_enrichment_fields(config)[0]
    address_file_enrichment_fields,  \* build_enrichment_fields(config)[1]
    geography_file,   \* the rows of the address file
    lf,               \* the input frame, parsed
    philly_lf,        \* rows flagged as in Philadelphia
    non_philly_lf,    \* rows flagged as outside Philadelphia
    joined_lf,        \* philly_lf joined to the address file
    has_geo,          \* rows of the last split_geos with both coordinates
    needs_geo,        \* rows handed to the next enrichment
    ais_enriched,     \* rows enrich_with_ais has produced so far
    tomtom_enriched,  \* rows enrich_with_tomtom has produced so far
    rejoined,         \* the frame handed to sink_csv, before the drop
    \* ---- one call of the jurisdiction classifier
    cl_pc,        \* position of the call: "call", "returned" or "off"
    cl_fn,        \* the function of utils/parse_address.py that is called
    cl_address,   \* is_non_philly_from_full_address: the address text
    cl_struct,    \* the city/state/zip dict, << >> when the struct is null
    cl_result     \* the bool returned, << >> before the return

rlVars == <<clock, _calls, _lock, rl_pc, now, wake_at, waits, admitted>>
lkVars == <<lk, via, lk_pc, args, attempt, response, coords, out_data, result, error,
            sent, admits>>
cfgVars == <<config, address_fields, ais_enrichment_fields,
             address_file_enrichment_fields>>
plVars == <<pl_pc, cfgVars, geography_file, lf, philly_lf, non_philly_lf, joined_lf,
            has_geo, needs_geo, ais_enriched, tomtom_enriched, rejoined>>

clVars == <<cl_pc, cl_fn, cl_address, cl_struct, cl_result>>

\* The variables outside each component.
outsideRL == <<lkVars, plVars, clVars>>
outsideLookup == <<rlVars, plVars, clVars>>
outsidePipeline == <<rlVars, lkVars, clVars>>
outsideClassifier == <<rlVars, lkVars, plVars>>

vars == <<rlVars, lkVars, plVars, clVars>>

\* The null of Python (None) and of polars.
None == "<None>"

\* A key that a JSON object or dict does not carry.
Absent == "<absent>"

\* The result slot before the lookup has returned.
NoResult == [returned |-> FALSE]

\* The lookup variables when no lookup is modelled.
LKParked ==
    /\ lk = "off"
    /\ via = ""
    /\ lk_pc = "off"
    /\ args = << >>
    /\ attempt = 0
    /\ response = << >>
    /\ coords = << >>
    /\ out_data = << >>
    /\ result = NoResult
    /\ error = ""
    /\ sent = 0
    /\ admits = 0

\* The classifier variables when no classifier call is modelled.
CLParked ==
    /\ cl_pc = "off"
    /\ cl_fn = ""
    /\ cl_address = ""
    /\ cl_struct = << >>
    /\ cl_result = << >>

\* The pipeline variables when process_csv is not modelled.
PLParked ==
    /\ pl_pc = "off"
    /\ config = << >>
    /\ address_fields = << >>
    /\ ais_enrichment_fields = {}
    /\ address_file_enrichment_fields = {}
    /\ geography_file = << >>
    /\ lf = << >>
    /\ philly_lf = << >>
    /\ non_philly_lf = << >>
    /\ joined_lf = << >>
    /\ has_geo = << >>
    /\ needs_geo = << >>
    /\ ais_enriched = << >>
    /\ tomtom_enriched = << >>
    /\ rejoined = << >>

(***************************************************************************)
(* RateLimiter                                                             *)
(***************************************************************************)
\* RateLimiter(max_calls, period): the model's instance, in ticks.
max_calls == 2
period == 2
\* Threads sharing the one instance, wait() calls per thread, clock horizon.
NThreads == 2
MaxWaits == 2
MaxTime == 5

Threads == 1..NThreads

\* while self._calls and self._calls[0] <= now - self.period: popleft()
RECURSIVE Evict(_, _)
Evict(q, n) ==
    IF q # << >> /\ Head(q) <= n - period THEN Evict(Tail(q), n) ELSE q

\* The capacity test written with <= in place of <.
HasCapacityOffByOne(q) == Len(q) <= max_calls

\* if len(self._calls) < self.max_calls
HasCapacity(q) == Len(q) < max_calls

\* sleep_for = self.period - (now - oldest); time.sleep(sleep_for) when
\* positive, else time.sleep(0.001) (rounded up to one tick).
SleepFor(q, n) ==
    LET sleep_for == period - (n - Head(q))
    IN  IF sleep_for > 0 THEN sleep_for ELSE 1

RLStart ==
    /\ clock = 0
    /\ _calls = << >>
    /\ _lock = 0
    /\ rl_pc = [t \in Threads |-> "idle"]
    /\ now = [t \in Threads |-> 0]
    /\ wake_at = [t \in Threads |-> 0]
    /\ waits = [t \in Threads |-> 0]
    /\ admitted = << >>

\* A thread calls wait().
CallWait(t) ==
    /\ UNCHANGED outsideRL
    /\ rl_pc[t] = "idle"
    /\ waits[t] < MaxWaits
    /\ rl_pc' = [rl_pc EXCEPT ![t] = "acquire"]
    /\ waits' = [waits EXCEPT ![t] = @ + 1]
    /\ UNCHANGED <<clock, _calls, _lock, now, wake_at, admitted>>

\* with self._lock: now = time.monotonic()
Acquire(t) ==
    /\ UNCHANGED outsideRL
    /\ rl_pc[t] = "acquire"
    /\ _lock = 0
    /\ _lock' = t
    /\ now' = [now EXCEPT ![t] = clock]
    /\ rl_pc' = [rl_pc EXCEPT ![t] = "locked"]
    /\ UNCHANGED <<clock, _calls, wake_at, waits, admitted>>

\* Eviction, then the admitting branch: append(now); return (lock released).
Admit(t) ==
    /\ UNCHANGED outsideRL
    /\ rl_pc[t] = "locked"
    /\ _lock = t
    /\ LET q == Evict(_calls, now[t])
       IN  /\ HasCapacity(q)
           /\ _calls' = Append(q, now[t])
           /\ admitted' = Append(admitted, now[t])
    /\ _lock' = 0
    /\ now' = [now EXCEPT ![t] = 0]
    /\ rl_pc' = [rl_pc EXCEPT ![t] = "idle"]
    /\ UNCHANGED <<clock, wake_at, waits>>

\* The full branch sleeping inside the with block, the lock still held.
RejectInsideLock(t) ==
    /\ UNCHANGED outsideRL
    /\ rl_pc[t] = "locked"
    /\ _lock = t
    /\ LET q == Evict(_calls, now[t])
       IN  /\ ~HasCapacity(q)
           /\ _calls' = q
           /\ wake_at' = [wake_at EXCEPT ![t] = clock + SleepFor(q, now[t])]
    /\ _lock' = t
    /\ now' = [now EXCEPT ![t] = 0]
    /\ rl_pc' = [rl_pc EXCEPT ![t] = "sleeping"]
    /\ UNCHANGED <<clock, waits, admitted>>

\* Eviction, then the full branch: compute sleep_for, leave the lock, sleep.
Reject(t) ==
    /\ UNCHANGED outsideRL
    /\ rl_pc[t] = "locked"
    /\ _lock = t
    /\ LET q == Evict(_calls, now[t])
       IN  /\ ~HasCapacity(q)
           /\ _calls' = q
           /\ wake_at' = [wake_at EXCEPT ![t] = clock + SleepFor(q, now[t])]
    /\ _lock' = 0
    /\ now' = [now EXCEPT ![t] = 0]
    /\ rl_pc' = [rl_pc EXCEPT ![t] = "sleeping"]
    /\ UNCHANGED <<clock, waits, admitted>>

\* time.sleep() returns (no earlier than asked); back to the top of the loop.
Wake(t) ==
    /\ UNCHANGED outsideRL
    /\ rl_pc[t] = "sleeping"
    /\ clock >= wake_at[t]
    /\ rl_pc' = [rl_pc EXCEPT ![t] = "acquire"]
    /\ wake_at' = [wake_at EXCEPT ![t] = 0]
    /\ UNCHANGED <<clock, _calls, _lock, now, waits, admitted>>

\* Time passes, also while a thread holds the lock.
Tick ==
    /\ UNCHANGED outsideRL
    /\ clock < MaxTime
    /\ clock' = clock + 1
    /\ UNCHANGED <<_calls, _lock, rl_pc, now, wake_at, waits, admitted>>

RLNext ==
    \/ \E t \in Threads : CallWait(t)
    \/ \E t \in Threads : Acquire(t)
    \/ \E t \in Threads : Admit(t)
    \/ \E t \in Threads : Reject(t)
    \/ \E t \in Threads : Wake(t)
    \/ Tick

RLInit == RLStart /\ LKParked /\ PLParked /\ CLParked

SpecRL == RLInit /\ [][RLNext]_vars

\* The scheduling wait() relies on: a thread inside wait() keeps running
\* (it takes the free lock, leaves the with block, returns from sleep) and
\* time.monotonic() advances. Nothing obliges a thread to call wait().
RLFairness ==
    /\ \A t \in Threads : WF_vars(Acquire(t))
    /\ \A t \in Threads : WF_vars(Admit(t))
    /\ \A t \in Threads : WF_vars(Reject(t))
    /\ \A t \in Threads : WF_vars(Wake(t))
    /\ WF_vars(Tick)

SpecRLFair == RLInit /\ [][RLNext]_vars /\ RLFairness

\* The thread is inside wait().
InWait(t) == rl_pc[t] \in {"acquire", "locked", "sleeping"}

\* The clock of the model has reached its horizon while a sleeping thread
\* waits for a later time.
HorizonReached ==
    /\ clock = MaxTime
    /\ \E u \in Threads : rl_pc[u] = "sleeping" /\ wake_at[u] > MaxTime

\* C23: with finitely many calls, time advancing and the threads scheduled
\* fairly, every thread inside wait() eventually returns from it (as long
\* as the clock can advance to the time its sleep ends), and a thread
\* asleep in wait() does not hold the lock.
C23_WaitReturns ==
    /\ [](\A t \in Threads : rl_pc[t] = "sleeping" => _lock # t)
    /\ \A t \in Threads : InWait(t) ~> (rl_pc[t] = "idle" \/ HorizonReached)

\* One thread sleeps in wait() while another, holding the lock, finds
\* capacity and is about to be admitted.
C23_Witness ==
    \E t, u \in Threads :
        /\ rl_pc[t] = "sleeping"
        /\ rl_pc[u] = "locked"
        /\ HasCapacity(Evict(_calls, now[u]))

\* Number of admissions stamped inside the window [t, t + period).
InWindow(t) ==
    Cardinality({i \in DOMAIN admitted :
                    t <= admitted[i] /\ admitted[i] < t + period})

\* C1: for one RateLimiter shared by concurrent threads, every window of
\* length period holds at most max_calls admission stamps, and admission
\* max_calls + 1 is stamped only once the first window has elapsed.
C1_SlidingWindow ==
    /\ \A t \in 0..MaxTime : InWindow(t) <= max_calls
    /\ Len(admitted) > max_calls =>
           admitted[max_calls + 1] >= admitted[1] + period

\* A burst of 2 * max_calls callers has been admitted.
C1_Witness ==
    /\ Len(admitted) >= 2 * max_calls
    /\ admitted[max_calls] = admitted[1]
    /\ admitted[2 * max_calls] = admitted[max_calls + 1]

(***************************************************************************)
(* ais_lookup                                                              *)
(***************************************************************************)
\* Longest candidate list of a response.
MaxFeatures == 2
\* @retry(stop_max_attempt_number=3) on ais_lookup.
AisMaxAttempts == 3

\* All sequences over S of length at most n.
SeqsUpTo(S, n) == UNION {[1..k -> S] : k \in 0..n}

Zips == {"19107", "11111"}
Street == "1234 N MARKET ST"
\* A geometry is its coordinates <<lon, lat>>; << >> when the candidate has
\* no geometry (or the geometry no coordinates).
Geometries == {<< >>, <<-75, 39>>, <<-76, 40>>}

\* str() of a coordinate.
Str(n) ==
    CASE n = -75 -> "-75"
      [] n = -76 -> "-76"
      [] n = 39 -> "39"
      [] n = 40 -> "40"

\* Features of an address search: the properties street_address, zip_code and
\* one enrichment property (zoning), each possibly missing, and the geometry.
CandidateShapes ==
    {[street_address |-> Street, zoning |-> "RSA5", geometry |-> <<-75, 39>>],
     [street_address |-> Absent, zoning |-> Absent, geometry |-> <<-76, 40>>],
     [street_address |-> Street, zoning |-> "RSA5", geometry |-> << >>]}

AisCandidates ==
    {[street_address |-> c.street_address, zoning |-> c.zoning,
      zip_code |-> z, geometry |-> c.geometry] :
        c \in CandidateShapes, z \in Zips \cup {Absent}}

\* Features of an intersection search carry no address properties.
IntersectionFeatures ==
    {[street_address |-> Absent, zoning |-> Absent, zip_code |-> Absent,
      geometry |-> g] : g \in Geometries}

ErrorResponse(code) ==
    [status_code |-> code, search_type |-> Absent, features |-> << >>,
     normalized |-> Absent]

\* What the search endpoint may answer.
AisResponses ==
    {ErrorResponse(c) : c \in {404, 401, 429, 500}}
    \cup {[status_code |-> 200, search_type |-> t, features |-> f, normalized |-> n] :
            t \in {"address", "street"},
            f \in SeqsUpTo(AisCandidates, MaxFeatures),
            n \in {Absent, "1234 MARKET ST"}}
    \cup {[status_code |-> 200, search_type |-> "intersection", features |-> f,
           normalized |-> n] :
            f \in SeqsUpTo(IntersectionFeatures, MaxFeatures),
            n \in {Absent, "1234 MARKET ST"}}

\* Features of a reverse-geocode answer: addresses with a geometry.
ReverseCandidates ==
    {[street_address |-> Street, zoning |-> "RSA5", zip_code |-> z, geometry |-> g] :
        z \in Zips, g \in {<<-75, 39>>, <<-76, 40>>}}

\* What the reverse_geocode endpoint may answer for one coordinate pair.
ReverseResponses ==
    {ErrorResponse(c) : c \in {404, 401, 429, 500}}
    \cup {[status_code |-> 200, search_type |-> Absent, features |-> f,
           normalized |-> Absent] :
            f \in {<< >>} \cup {<<c>> : c \in ReverseCandidates}}

\* The arguments of ais_lookup(sess, api_key, address, zip, enrichment_fields,
\* existing_is_addr, existing_is_philly_addr, original_address).
AisArgs ==
    [address : {"1234 mkt st"},
     zip : {"19107", None},
     enrichment_fields : {<< >>, <<"zoning">>},
     existing_is_addr : BOOLEAN,
     existing_is_philly_addr : BOOLEAN,
     original_address : {None, "1234 mkt street"}]

\* The same call made with the keywords fetch_4326 and fetch_2272, which the
\* signature of ais_lookup does not have.
AisFlaggedArgs ==
    {[address |-> "1234 mkt st", zip |-> "19107", enrichment_fields |-> << >>,
      existing_is_addr |-> TRUE, existing_is_philly_addr |-> TRUE,
      original_address |-> "1234 mkt street",
      fetch_4326 |-> f, fetch_2272 |-> g] : f, g \in BOOLEAN}

\* The call binds to the parameters of ais_lookup: it passes no keyword the
\* signature lacks.
AisBinds(a) == DOMAIN a \cap {"fetch_4326", "fetch_2272"} = {}

\* No request was sent and so nothing was answered.
NoRequest == ErrorResponse(0)

\* dict.get(key, ""): the value, "" when the key is missing.
Get(d, key) == IF d[key] = Absent THEN "" ELSE d[key]

\* Python truthiness of a string or None.
Truthy(v) == v # None /\ v # "" /\ v # Absent

\* The zip-code test of tiebreak.
ZipMatches(candidate, zip) == Get(candidate, "zip_code") = zip

\* tiebreak taking the first match instead of requiring a single one.
tiebreakFirstMatch(features, zip) ==
    LET candidates == SelectSeq(features, LAMBDA c : ZipMatches(c, zip))
    IN  IF Len(candidates) >= 1 THEN <<candidates[1]>> ELSE << >>

\* tiebreak(response, zip): the one candidate whose zip_code equals zip, as
\* <<candidate>>; << >> (None) when none or several match.
tiebreak(features, zip) ==
    LET candidates == SelectSeq(features, LAMBDA c : ZipMatches(c, zip))
    IN  IF Len(candidates) = 1 THEN <<candidates[1]>> ELSE << >>

\* get_intersection_coords: the coordinates of every feature with a geometry.
RECURSIVE get_intersection_coords(_)
get_intersection_coords(features) ==
    IF features = << >> THEN << >>
    ELSE LET geom == Head(features).geometry
         IN  (IF geom # << >> THEN <<geom>> ELSE << >>)
                 \o get_intersection_coords(Tail(features))

\* tiebreak_coordinate_lookups: the first candidate, over all responses, whose
\* zip_code equals zip (any candidate when zip is empty); << >> when none.
RECURSIVE CoordinateAddresses(_, _)
CoordinateAddresses(responses, zip) ==
    IF responses = << >> THEN << >>
    ELSE SelectSeq(Head(responses).features,
                   LAMBDA c : ZipMatches(c, zip) \/ ~Truthy(zip))
             \o CoordinateAddresses(Tail(responses), zip)

\* The reverse-lookup tiebreak requiring a single surviving candidate.
tiebreak_coordinate_single(responses, zip) ==
    LET addresses == CoordinateAddresses(responses, zip)
    IN  IF Len(addresses) = 1 THEN <<addresses[1]>> ELSE << >>

\* tiebreak_coordinate_lookups(responses, zip): addresses[0] if any.
tiebreak_coordinate_lookups(responses, zip) ==
    LET addresses == CoordinateAddresses(responses, zip)
    IN  IF addresses # << >> THEN <<addresses[1]>> ELSE << >>

Return(value) == [kind |-> "return", value |-> value]
Raise(exception) == [kind |-> "raise", value |-> exception]

\* The enrichment values of an accepted candidate: str(value), None when the
\* property is missing or empty.
CandidateFields(candidate, enrichment_fields) ==
    [i \in DOMAIN enrichment_fields |->
        IF Truthy(Get(candidate, enrichment_fields[i]))
        THEN Get(candidate, enrichment_fields[i]) ELSE None]

NullFields(enrichment_fields) == [i \in DOMAIN enrichment_fields |-> None]

\* ais_lookup, "if tiebroken_address:": the accepted candidate's output.
\* A candidate without geometry raises: the KeyError handler's
\* `lon, lat = ""` cannot unpack and throws ValueError.
AisAccepted(candidate, a) ==
    IF candidate.geometry = << >> THEN Raise("ValueError")
    ELSE Return(
        [output_address |->
             IF Truthy(Get(candidate, "street_address"))
             THEN Get(candidate, "street_address") ELSE a.address,
         is_addr |-> TRUE,
         is_philly_addr |-> TRUE,
         geocode_lat |-> Str(candidate.geometry[2]),
         geocode_lon |-> Str(candidate.geometry[1]),
         is_multiple_match |-> FALSE,
         match_type |-> "ais",
         fields |-> CandidateFields(candidate, a.enrichment_fields)])

\* The failed tiebreak handing back the caller's validity flags.
AisTiebreakFailedKeepsFlags(resp, a) ==
    Return(
        [output_address |->
             IF Truthy(Get(resp, "normalized")) THEN Get(resp, "normalized")
             ELSE a.address,
         is_addr |-> a.existing_is_addr,
         is_philly_addr |-> a.existing_is_philly_addr,
         geocode_lat |-> None,
         geocode_lon |-> None,
         is_multiple_match |-> TRUE,
         match_type |-> "ais",
         fields |-> NullFields(a.enrichment_fields)])

\* ais_lookup, "if not tiebroken_address:": the tiebreak failed.
AisTiebreakFailed(resp, a) ==
    Return(
        [output_address |->
             IF Truthy(Get(resp, "normalized")) THEN Get(resp, "normalized")
             ELSE a.address,
         is_addr |-> FALSE,
         is_philly_addr |-> TRUE,
         geocode_lat |-> None,
         geocode_lon |-> None,
         is_multiple_match |-> TRUE,
         match_type |-> "ais",
         fields |-> NullFields(a.enrichment_fields)])

\* The tail of ais_lookup without the original_address argument.
AisNoMatchQueried(a) ==
    Return(
        [output_address |-> a.address,
         is_addr |-> a.existing_is_addr,
         is_philly_addr |-> a.existing_is_philly_addr,
         geocode_lat |-> None,
         geocode_lon |-> None,
         is_multiple_match |-> FALSE,
         match_type |-> None,
         fields |-> NullFields(a.enrichment_fields)])

\* ais_lookup, the tail: any status other than 200.
AisNoMatch(a) ==
    Return(
        [output_address |->
             IF Truthy(a.original_address) THEN a.original_address ELSE a.address,
         is_addr |-> a.existing_is_addr,
         is_philly_addr |-> a.existing_is_philly_addr,
         geocode_lat |-> None,
         geocode_lon |-> None,
         is_multiple_match |-> FALSE,
         match_type |-> None,
         fields |-> NullFields(a.enrichment_fields)])

\* The choice on a 200 response taking the head of the list once the
\* tiebreak finds a match.
AisChooseHead(resp, zip) ==
    IF Len(resp.features) >= 1
       /\ (Len(resp.features) = 1 \/ tiebreak(resp.features, zip) # << >>)
       /\ resp.search_type # "intersection"
    THEN <<resp.features[1]>> ELSE << >>

\* The branch taken on a 200 response.
AisBranch(resp) ==
    IF Len(resp.features) > 1 /\ resp.search_type = "address" THEN "tiebreak"
    ELSE IF resp.search_type = "intersection" THEN "intersection"
    ELSE IF Len(resp.features) = 1 THEN "single"
    ELSE "none"

\* The candidate chosen on a 200 response that needs no reverse lookup.
AisChoose(resp, zip) ==
    CASE AisBranch(resp) = "tiebreak" -> tiebreak(resp.features, zip)
      [] AisBranch(resp) = "single" -> <<resp.features[1]>>
      [] OTHER -> << >>

\* What ais_lookup does once tiebroken_address is known.
AisFinish(tiebroken_address, resp, a) ==
    IF tiebroken_address = << >> THEN AisTiebreakFailed(resp, a)
    ELSE AisAccepted(tiebroken_address[1], a)

\* The status checks at the top of ais_lookup.
AisStatusRaises(resp) == resp.status_code >= 500 \/ resp.status_code = 429

\* throttle_ais_lookup(sess, api_key, address, zip=None, ...): the calls
\* that leave the parameters after zip at their defaults.
ThrottledArgs ==
    {a \in AisArgs : /\ a.enrichment_fields = << >>
                     /\ ~a.existing_is_addr /\ ~a.existing_is_philly_addr
                     /\ a.original_address = None}

\* ais_lookup called, directly or by throttle_ais_lookup.
AisStart ==
    /\ lk = "ais"
    /\ \/ /\ via = "ais_lookup"
          /\ lk_pc = "call"
          /\ args \in AisArgs \cup AisFlaggedArgs
       \/ /\ via = "throttle_ais_lookup"
          /\ lk_pc = "throttle"
          /\ args \in ThrottledArgs
    /\ attempt = 1
    /\ response = << >>
    /\ coords = << >>
    /\ out_data = << >>
    /\ result = NoResult
    /\ error = ""
    /\ sent = 0
    /\ admits = 0

\* The attempt ends: the dict is returned, or the exception goes to @retry.
AisEnd(outcome, resp) ==
    /\ response' = resp
    /\ IF outcome.kind = "return"
       THEN /\ lk_pc' = "returned"
            /\ result' = outcome.value
            /\ error' = ""
       ELSE /\ lk_pc' = "failed"
            /\ result' = NoResult
            /\ error' = outcome.value

\* sess.get(...) in ais_lookup and make_coordinate_lookups: the request is
\* sent; AIS_RATE_LIMITER.wait() is not called on this path.
AisRequest ==
    /\ sent' = sent + 1
    /\ UNCHANGED admits

\* throttle_ais_lookup: AIS_RATE_LIMITER.wait() returns and ais_lookup is
\* called; the retries of ais_lookup happen inside that call.
ThrottleAisLookup ==
    /\ UNCHANGED outsideLookup
    /\ lk = "ais" /\ lk_pc = "throttle"
    /\ admits' = admits + 1
    /\ lk_pc' = "call"
    /\ UNCHANGED <<lk, via, args, attempt, response, coords, out_data, result,
                   error, sent>>

\* The call passes a keyword ais_lookup does not take: Python raises TypeError
\* before the body runs (under @retry, so on every attempt).
AisCallRejected ==
    /\ UNCHANGED outsideLookup
    /\ lk = "ais" /\ lk_pc = "call"
    /\ ~AisBinds(args)
    /\ AisEnd(Raise("TypeError"), NoRequest)
    /\ UNCHANGED <<lk, via, args, attempt, coords, out_data>>
    /\ UNCHANGED <<sent, admits>>

\* sess.get(ais_url): the service answers 5xx or 429 and ais_lookup raises.
AisSearchRaises ==
    /\ UNCHANGED outsideLookup
    /\ lk = "ais" /\ lk_pc = "call"
    /\ AisBinds(args)
    /\ \E resp \in AisResponses :
          /\ AisStatusRaises(resp)
          /\ AisEnd(Raise("Exception"), resp)
    /\ UNCHANGED <<lk, via, args, attempt, coords, out_data>>
    /\ AisRequest

\* sess.get(ais_url) answered and no reverse lookup is needed: the rest of
\* ais_lookup runs to its return (or to the exception of the unpacking).
AisSearchResolves ==
    /\ UNCHANGED outsideLookup
    /\ lk = "ais" /\ lk_pc = "call"
    /\ AisBinds(args)
    /\ \E resp \in AisResponses :
          /\ ~AisStatusRaises(resp)
          /\ IF resp.status_code # 200
             THEN AisEnd(AisNoMatch(args), resp)
             ELSE /\ AisBranch(resp) # "intersection"
                  /\ AisEnd(AisFinish(AisChoose(resp, args.zip), resp, args), resp)
    /\ UNCHANGED <<lk, via, args, attempt, coords, out_data>>
    /\ AisRequest

\* sess.get(ais_url) answered an intersection: get_intersection_coords, then
\* make_coordinate_lookups starts.
AisSearchIntersection ==
    /\ UNCHANGED outsideLookup
    /\ lk = "ais" /\ lk_pc = "call"
    /\ AisBinds(args)
    /\ \E resp \in AisResponses :
          /\ resp.status_code = 200
          /\ AisBranch(resp) = "intersection"
          /\ response' = resp
          /\ coords' = get_intersection_coords(resp.features)
    /\ out_data' = << >>
    /\ lk_pc' = "reverse"
    /\ UNCHANGED <<lk, via, args, attempt, result, error>>
    /\ AisRequest

\* Exception("401 response. Invalid API key.")
InvalidApiKey == "Exception: 401 response. Invalid API key."

\* make_coordinate_lookups, the exception raised on a status other than 200.
ReverseStatusError(status_code) ==
    IF status_code >= 500 \/ status_code = 429 THEN "Exception"
    ELSE IF status_code = 401 THEN InvalidApiKey
    ELSE "ValueError"

\* make_coordinate_lookups: one reverse_geocode request.
AisReverseLookup ==
    /\ UNCHANGED outsideLookup
    /\ lk = "ais" /\ lk_pc = "reverse"
    /\ coords # << >>
    /\ \E resp \in ReverseResponses :
          IF resp.status_code = 200
          THEN /\ out_data' = Append(out_data, resp)
               /\ coords' = Tail(coords)
               /\ UNCHANGED <<lk_pc, response, result, error>>
          ELSE /\ AisEnd(Raise(ReverseStatusError(resp.status_code)), response)
               /\ coords' = << >>
               /\ out_data' = << >>
    /\ UNCHANGED <<lk, via, args, attempt>>
    /\ AisRequest

\* make_coordinate_lookups returned: tiebreak_coordinate_lookups and the rest
\* of ais_lookup.
AisReverseDone ==
    /\ UNCHANGED outsideLookup
    /\ lk = "ais" /\ lk_pc = "reverse"
    /\ coords = << >>
    /\ AisEnd(AisFinish(tiebreak_coordinate_lookups(out_data, args.zip),
                        response, args), response)
    /\ UNCHANGED <<lk, via, args, attempt, coords, out_data>>
    /\ UNCHANGED <<sent, admits>>

\* A retry that stops one attempt late.
StopAfterAttemptOver(attempt_number, stop_max_attempt_number) ==
    attempt_number > stop_max_attempt_number

\* @retry(stop_max_attempt_number=...): no further attempt once that many
\* were made.
StopAfterAttempt(attempt_number, stop_max_attempt_number) ==
    attempt_number >= stop_max_attempt_number

\* @retry: another attempt while fewer than stop_max_attempt_number were made.
AisRetry ==
    /\ UNCHANGED outsideLookup
    /\ lk = "ais" /\ lk_pc = "failed"
    /\ ~StopAfterAttempt(attempt, AisMaxAttempts)
    /\ attempt' = attempt + 1
    /\ lk_pc' = "call"
    /\ error' = ""
    /\ coords' = << >>
    /\ out_data' = << >>
    /\ response' = << >>
    /\ UNCHANGED <<lk, via, args, result>>
    /\ sent' = 0 /\ admits' = 0

\* @retry: the last attempt failed and its exception propagates.
AisGiveUp ==
    /\ UNCHANGED outsideLookup
    /\ lk = "ais" /\ lk_pc = "failed"
    /\ StopAfterAttempt(attempt, AisMaxAttempts)
    /\ lk_pc' = "raised"
    /\ coords' = << >>
    /\ out_data' = << >>
    /\ UNCHANGED <<lk, via, args, attempt, response, result, error>>
    /\ UNCHANGED <<sent, admits>>

AisNext ==
    \/ ThrottleAisLookup
    \/ AisCallRejected
    \/ AisSearchRaises
    \/ AisSearchResolves
    \/ AisSearchIntersection
    \/ AisReverseLookup
    \/ AisReverseDone
    \/ AisRetry
    \/ AisGiveUp

(***************************************************************************)
(* Jurisdiction classifier (utils/parse_address.py)                        *)
(***************************************************************************)
\* utils.zips.ZIPS, the jurisdiction's postal codes (one stands for all).
ZIPS == {"19107"}

\* str.lower() without the strip.
LowerOnly(text) ==
    CASE text = "PHILADELPHIA" -> "philadelphia"
      [] text = " Phila " -> " phila "
      [] text = "PA" -> "pa"
      [] text = "LAWNSIDE" -> "lawnside"
      [] text = "NJ" -> "nj"
      [] text = " pa " -> " pa "
      [] text = "Penn" -> "penn"
      [] OTHER -> text

\* str.lower().strip() on the city and state texts of the model.
LowerStrip(text) ==
    CASE text = "PHILADELPHIA" -> "philadelphia"
      [] text = " Phila " -> "phila"
      [] text = "PA" -> "pa"
      [] text = "LAWNSIDE" -> "lawnside"
      [] text = "NJ" -> "nj"
      [] text = " pa " -> "pa"
      [] text = "Penn" -> "penn"
      [] OTHER -> text

\* zip_code[:5] without the strip.
Zip5Unstripped(text) ==
    CASE text = "19107-3409" -> "19107"
      [] text = " 19107 " -> " 1910"
      [] OTHER -> text

\* zip_code.strip()[:5]
Zip5(text) ==
    CASE text = "19107-3409" -> "19107"
      [] text = " 19107 " -> "19107"
      [] OTHER -> text

philly_names == {"philadelphia", "phila", "philly"}
pa_names == {"pennsylvania", "pa", "penn"}

\* flag_non_philly_address(address_data, philly_zips): TRUE when the address
\* is outside Philadelphia.
flag_non_philly_address(address_data, philly_zips) ==
    LET city == IF Truthy(address_data.city)
                THEN LowerStrip(address_data.city) ELSE address_data.city
        state == IF Truthy(address_data.state)
                 THEN LowerStrip(address_data.state) ELSE address_data.state
        zip_code == address_data.zip
    IN  IF city \in philly_names /\ state \in pa_names THEN FALSE
        ELSE IF city # None /\ city \notin philly_names THEN TRUE
        ELSE IF state # None /\ state \notin pa_names THEN TRUE
        ELSE IF zip_code = None THEN FALSE
        ELSE IF Zip5(zip_code) \in philly_zips THEN FALSE
        ELSE TRUE

(***************************************************************************)
(* tomtom_lookup                                                           *)
(***************************************************************************)
\* @retry(stop_max_attempt_number=5) on tomtom_lookup.
TomTomMaxAttempts == 5

PhillyMatch == "1234 MARKET ST, PHILADELPHIA, PA, 19107"
LawnsideMatch == "5 ELM AVE, LAWNSIDE, NJ, 08045"

\* tag_full_address: what usaddress tags in the address texts of the model.
tag_full_address(address) ==
    CASE address = PhillyMatch ->
             [city |-> "PHILADELPHIA", state |-> "PA", zip |-> "19107"]
      [] address = LawnsideMatch ->
             [city |-> "LAWNSIDE", state |-> "NJ", zip |-> "08045"]
      [] address = "5 elm ave, lawnside, nj 08045" ->
             [city |-> "lawnside", state |-> "nj", zip |-> "08045"]
      [] OTHER -> [city |-> None, state |-> None, zip |-> None]

\* parser.parse(address)["components"]["output_address"] of the passyunk
\* parser on the address texts of the model.
PassyunkOutput(address) ==
    CASE address = PhillyMatch -> "1234 MARKET ST"
      [] address = LawnsideMatch -> "5 ELM AVE"
      [] address = "1234 mkt st" -> "1234 MARKET ST"
      [] address = "5 elm ave" -> "5 ELM AVE"
      [] OTHER -> ""

\* str(round(float(v), 8)) of a coordinate.
FloatStr(n) ==
    CASE n = -75 -> "-75.0"
      [] n = 39 -> "39.0"
      [] n = 2694393 -> "2694393.0"
      [] n = 235982 -> "235982.0"

\* float() of the text str() made of a coordinate.
ParseFloat(text) ==
    CASE text = "2694393" -> 2694393
      [] text = "235982" -> 235982
      [] text = "-75" -> -75
      [] text = "39" -> 39

\* str() of a coordinate of the projected request.
StrXY(n) ==
    CASE n = 2694393 -> "2694393"
      [] n = 235982 -> "235982"
      [] n = -75 -> "-75"
      [] n = 39 -> "39"

\* A candidate's location: x and y, each << >> when the key is missing (a
\* candidate without location is one with neither).
TomTomLocations(xv, yv) == [x : {<< >>, <<xv>>}, y : {<< >>, <<yv>>}]

\* Candidates of the first (srid 4326) request.
TomTomCandidates ==
    [address : {PhillyMatch, LawnsideMatch}, location : TomTomLocations(-75, 39)]

\* Candidates of the projected (srid 2272) request.
ProjectedCandidates ==
    [address : {PhillyMatch}, location : TomTomLocations(2694393, 235982)]

TomTomError(code) == [status_code |-> code, candidates |-> << >>]

TomTomResponses ==
    {TomTomError(c) : c \in {404, 429, 500}}
    \cup {[status_code |-> 200, candidates |-> c] :
            c \in SeqsUpTo(TomTomCandidates, MaxFeatures)}

ProjectedResponses ==
    {TomTomError(c) : c \in {404, 429, 500}}
    \cup {[status_code |-> 200, candidates |-> c] :
            c \in {<< >>} \cup {<<k>> : k \in ProjectedCandidates}}

\* tomtom_lookup(sess, parser, philly_zips, address, fallback_addr,
\* fetch_4326, fetch_2272).
TomTomArgs ==
    [address : {"5 elm ave lawnside nj", None, ""},
     fallback_addr : {"5 ELM AVE", None},
     fetch_4326 : BOOLEAN,
     fetch_2272 : BOOLEAN]

\* Every status other than 200 raises.
TomTomRaisesUnlessOk(resp) == resp.status_code # 200

\* _do_tomtom_lookup, the statuses that raise: 5xx and 429.
TomTomStatusRaises(resp) == resp.status_code >= 500 \/ resp.status_code = 429

\* response.status_code == 200 and response.json().get("candidates")
TomTomHasCandidate(resp) == resp.status_code = 200 /\ resp.candidates # << >>

\* The geographic pair with each member read and stored on its own.
TomTomGeographicEach(r_json) ==
    [geocode_lat |-> IF r_json.location.y # << >>
                     THEN FloatStr(r_json.location.y[1]) ELSE None,
     geocode_lon |-> IF r_json.location.x # << >>
                     THEN FloatStr(r_json.location.x[1]) ELSE None]

\* _do_tomtom_lookup, "if fetch_4326:": both members from the candidate's
\* location, both None on KeyError.
TomTomGeographic(r_json) ==
    IF r_json.location.x # << >> /\ r_json.location.y # << >>
    THEN [geocode_lat |-> FloatStr(r_json.location.y[1]),
          geocode_lon |-> FloatStr(r_json.location.x[1])]
    ELSE [geocode_lat |-> None, geocode_lon |-> None]

\* flag_non_philly_address as tomtom_lookup and geocoder call it: a dict
\* whose member is_non_philly is the verdict.
LocationFlags(address_data, philly_zips) ==
    [is_non_philly |-> flag_non_philly_address(address_data, philly_zips)]

\* The dict built from the last candidate of the response.
TomTomMatchedLast(resp, a) ==
    LET r_json == resp.candidates[Len(resp.candidates)]
        matched_address == r_json.address
        is_philly_addr ==
            ~LocationFlags(tag_full_address(matched_address), ZIPS).is_non_philly
        parsed_address == PassyunkOutput(matched_address)
        base == [output_address |->
                     IF Truthy(parsed_address) THEN parsed_address
                     ELSE matched_address,
                 match_type |-> "tomtom",
                 is_addr |-> TRUE,
                 is_philly_addr |-> is_philly_addr]
    IN  IF a.fetch_4326 THEN base @@ TomTomGeographic(r_json) ELSE base

\* _do_tomtom_lookup up to the projected request: the dict built from the
\* first candidate.
TomTomMatched(resp, a) ==
    LET r_json == resp.candidates[1]
        matched_address == r_json.address
        is_philly_addr ==
            ~LocationFlags(tag_full_address(matched_address), ZIPS).is_non_philly
        parsed_address == PassyunkOutput(matched_address)
        base == [output_address |->
                     IF Truthy(parsed_address) THEN parsed_address
                     ELSE matched_address,
                 match_type |-> "tomtom",
                 is_addr |-> TRUE,
                 is_philly_addr |-> is_philly_addr]
    IN  IF a.fetch_4326 THEN base @@ TomTomGeographic(r_json) ELSE base

\* _fetch_tomtom_coordinates: (str(x), str(y)), (None, None) when there is no
\* candidate or its location lacks a member.
fetch_tomtom_coordinates(resp) ==
    IF TomTomHasCandidate(resp)
       /\ resp.candidates[1].location.x # << >>
       /\ resp.candidates[1].location.y # << >>
    THEN <<StrXY(resp.candidates[1].location.x[1]),
           StrXY(resp.candidates[1].location.y[1])>>
    ELSE <<None, None>>

\* _do_tomtom_lookup, "if fetch_2272:": float(None) raises TypeError.
TomTomProjected(matched, xy) ==
    IF xy[1] = None \/ xy[2] = None THEN Raise("TypeError")
    ELSE Return(matched @@ [geocode_x |-> FloatStr(ParseFloat(xy[1])),
                            geocode_y |-> FloatStr(ParseFloat(xy[2]))])

\* The no-match dict with all four coordinate keys, whatever the flags.
TomTomNoMatchAllKeys(a) ==
    [output_address |->
         IF Truthy(a.fallback_addr) THEN a.fallback_addr ELSE a.address,
     match_type |-> None,
     is_addr |-> FALSE,
     is_philly_addr |-> FALSE,
     geocode_lat |-> None, geocode_lon |-> None,
     geocode_x |-> None, geocode_y |-> None]

\* tomtom_lookup, "Truly no match".
TomTomNoMatch(a) ==
    LET base == [output_address |->
                     IF Truthy(a.fallback_addr) THEN a.fallback_addr
                     ELSE a.address,
                 match_type |-> None,
                 is_addr |-> FALSE,
                 is_philly_addr |-> FALSE]
        geo == IF a.fetch_4326
               THEN [geocode_lat |-> None, geocode_lon |-> None] ELSE << >>
        xy == IF a.fetch_2272
              THEN [geocode_x |-> None, geocode_y |-> None] ELSE << >>
    IN  (base @@ geo) @@ xy

\* tomtom_lookup called.
TomTomStart ==
    /\ lk = "tomtom"
    /\ via = "tomtom_lookup"
    /\ lk_pc = "call"
    /\ args \in TomTomArgs
    /\ attempt = 1
    /\ response = << >>
    /\ coords = << >>
    /\ out_data = << >>
    /\ result = NoResult
    /\ error = ""
    /\ sent = 0
    /\ admits = 0

TomTomEnd(outcome, resp) ==
    /\ response' = resp
    /\ IF outcome.kind = "return"
       THEN /\ lk_pc' = "returned"
            /\ result' = outcome.value
            /\ error' = ""
       ELSE /\ lk_pc' = "failed"
            /\ result' = NoResult
            /\ error' = outcome.value

\* TOMTOM_RATE_LIMITER.wait() returns, then sess.get(...) sends the request.
TomTomRequest ==
    /\ sent' = sent + 1
    /\ admits' = admits + 1

\* _do_tomtom_lookup, "if not address: return None": no request is made.
TomTomNoAddress ==
    /\ UNCHANGED outsideLookup
    /\ lk = "tomtom" /\ lk_pc = "call"
    /\ ~Truthy(args.address)
    /\ TomTomEnd(Return(TomTomNoMatch(args)), << >>)
    /\ UNCHANGED <<lk, via, args, attempt, coords, out_data>>
    /\ UNCHANGED <<sent, admits>>

\* The first request is answered with 5xx or 429.
TomTomSearchRaises ==
    /\ UNCHANGED outsideLookup
    /\ lk = "tomtom" /\ lk_pc = "call"
    /\ Truthy(args.address)
    /\ \E resp \in TomTomResponses :
          /\ TomTomStatusRaises(resp)
          /\ TomTomEnd(Raise("Exception"), resp)
    /\ UNCHANGED <<lk, via, args, attempt, coords, out_data>>
    /\ TomTomRequest

\* The first request is answered and no projected request follows.
TomTomSearchResolves ==
    /\ UNCHANGED outsideLookup
    /\ lk = "tomtom" /\ lk_pc = "call"
    /\ Truthy(args.address)
    /\ \E resp \in TomTomResponses :
          /\ ~TomTomStatusRaises(resp)
          /\ IF ~TomTomHasCandidate(resp)
             THEN TomTomEnd(Return(TomTomNoMatch(args)), resp)
             ELSE /\ ~args.fetch_2272
                  /\ TomTomEnd(Return(TomTomMatched(resp, args)), resp)
    /\ UNCHANGED <<lk, via, args, attempt, coords, out_data>>
    /\ TomTomRequest

\* The first request returned a candidate and fetch_2272 is set: the dict so
\* far is kept while _fetch_tomtom_coordinates makes the second request.
TomTomSearchMatched ==
    /\ UNCHANGED outsideLookup
    /\ lk = "tomtom" /\ lk_pc = "call"
    /\ Truthy(args.address)
    /\ args.fetch_2272
    /\ \E resp \in TomTomResponses :
          /\ TomTomHasCandidate(resp)
          /\ response' = resp
          /\ out_data' = TomTomMatched(resp, args)
    /\ lk_pc' = "projected"
    /\ UNCHANGED <<lk, via, args, attempt, coords, result, error>>
    /\ TomTomRequest

\* _fetch_tomtom_coordinates: the second request and what follows it.
TomTomFetchProjected ==
    /\ UNCHANGED outsideLookup
    /\ lk = "tomtom" /\ lk_pc = "projected"
    /\ \E resp \in ProjectedResponses :
          IF TomTomStatusRaises(resp)
          THEN TomTomEnd(Raise("Exception"), response)
          ELSE TomTomEnd(
                   TomTomProjected(out_data, fetch_tomtom_coordinates(resp)),
                   response)
    /\ out_data' = << >>
    /\ UNCHANGED <<lk, via, args, attempt, coords>>
    /\ TomTomRequest

TomTomRetry ==
    /\ UNCHANGED outsideLookup
    /\ lk = "tomtom" /\ lk_pc = "failed"
    /\ ~StopAfterAttempt(attempt, TomTomMaxAttempts)
    /\ attempt' = attempt + 1
    /\ lk_pc' = "call"
    /\ error' = ""
    /\ response' = << >>
    /\ UNCHANGED <<lk, via, args, coords, out_data, result>>
    /\ sent' = 0 /\ admits' = 0

TomTomGiveUp ==
    /\ UNCHANGED outsideLookup
    /\ lk = "tomtom" /\ lk_pc = "failed"
    /\ StopAfterAttempt(attempt, TomTomMaxAttempts)
    /\ lk_pc' = "raised"
    /\ UNCHANGED <<lk, via, args, attempt, response, coords, out_data, result, error>>
    /\ UNCHANGED <<sent, admits>>

TomTomNext ==
    \/ TomTomNoAddress
    \/ TomTomSearchRaises
    \/ TomTomSearchResolves
    \/ TomTomSearchMatched
    \/ TomTomFetchProjected
    \/ TomTomRetry
    \/ TomTomGiveUp

(***************************************************************************)
(* One lookup, against either service                                      *)
(***************************************************************************)
LookupInit == RLStart /\ (AisStart \/ TomTomStart) /\ PLParked /\ CLParked

LookupNext == AisNext \/ TomTomNext

SpecLookup == LookupInit /\ [][LookupNext]_vars

(***************************************************************************)
(* Properties of one ais_lookup / tomtom_lookup call                       *)
(***************************************************************************)
AisReturned == lk = "ais" /\ lk_pc = "returned"

\* A 200 answer of search_type "address" with several candidates.
AisMultiAddress ==
    /\ response.status_code = 200
    /\ response.search_type = "address"
    /\ Len(response.features) >= 2

\* Positions of the candidates whose zip_code is the query's postal code.
ZipHits ==
    {i \in DOMAIN response.features : response.features[i].zip_code = args.zip}

\* The result is the acceptance of candidate c.
AcceptedFrom(c) ==
    /\ c.geometry # << >>
    /\ result.output_address =
           (IF c.street_address = Absent THEN args.address ELSE c.street_address)
    /\ result.geocode_lat = Str(c.geometry[2])
    /\ result.geocode_lon = Str(c.geometry[1])
    /\ result.is_addr = TRUE
    /\ result.is_philly_addr = TRUE
    /\ result.is_multiple_match = FALSE
    /\ result.match_type = "ais"

\* C5: when a 200 "address" response holds two or more candidates of which
\* exactly one carries the query's postal code, the result returned is the
\* acceptance of that candidate (its street address and coordinates,
\* is_multiple_match false, match_type "ais"), wherever it stands in the list.
C5_TiebreakCorrect ==
    (AisReturned /\ AisMultiAddress /\ Cardinality(ZipHits) = 1) =>
        \A i \in ZipHits :
            /\ AcceptedFrom(response.features[i])
            /\ ~result.is_multiple_match

\* The matching candidate stands second, behind one with other coordinates.
C5_Witness ==
    /\ AisReturned /\ AisMultiAddress
    /\ ZipHits = {2}
    /\ response.features[1].geometry # << >>
    /\ response.features[1].geometry # response.features[2].geometry
    /\ result.geocode_lat = Str(response.features[2].geometry[2])

\* Two "address" candidates of which neither or both carry the postal code.
C6_Case ==
    /\ AisReturned /\ AisMultiAddress
    /\ Len(response.features) = 2
    /\ Cardinality(ZipHits) \in {0, 2}

\* C6 as stated: with two candidates of which neither or both match, the
\* result has is_multiple_match true, null coordinates and the validity flags
\* passed in (existing_is_addr, existing_is_philly_addr).
C6_FlagsPreserved ==
    C6_Case =>
        /\ result.is_multiple_match = TRUE
        /\ result.geocode_lat = None /\ result.geocode_lon = None
        /\ result.is_addr = args.existing_is_addr
        /\ result.is_philly_addr = args.existing_is_philly_addr

\* C6 amended: with two candidates of which neither or both match, the result
\* has is_multiple_match true, null coordinates, is_addr false and
\* is_philly_addr true, whatever validity flags were passed in.
C6_FlagsReset ==
    C6_Case =>
        /\ result.is_multiple_match = TRUE
        /\ result.geocode_lat = None /\ result.geocode_lon = None
        /\ result.is_addr = FALSE
        /\ result.is_philly_addr = TRUE

\* Both candidates match and the caller's flags were the opposite ones.
C6_Witness ==
    /\ C6_Case
    /\ Cardinality(ZipHits) = 2
    /\ args.existing_is_addr = TRUE
    /\ args.existing_is_philly_addr = FALSE

\* C7: when the tiebreak over a multi-candidate "address" response leaves
\* zero or several candidates, the result has is_addr false, is_philly_addr
\* true, is_multiple_match true, match_type "ais", null coordinates, every
\* requested enrichment field null, and the queried address as output_address
\* when the response has no normalized form.
C7_TiebreakFails ==
    (AisReturned /\ AisMultiAddress /\ Cardinality(ZipHits) # 1) =>
        /\ result.is_addr = FALSE
        /\ result.is_philly_addr = TRUE
        /\ result.is_multiple_match = TRUE
        /\ result.match_type = "ais"
        /\ result.geocode_lat = None /\ result.geocode_lon = None
        /\ DOMAIN result.fields = DOMAIN args.enrichment_fields
        /\ \A i \in DOMAIN result.fields : result.fields[i] = None
        /\ response.normalized = Absent => result.output_address = args.address

\* Several candidates match, an enrichment field was requested and the
\* response has no normalized form.
C7_Witness ==
    /\ AisReturned /\ AisMultiAddress
    /\ Cardinality(ZipHits) >= 2
    /\ args.enrichment_fields # << >>
    /\ response.normalized = Absent
    /\ result.output_address = args.address

\* C8: on a not-found status ais_lookup returns (no exception) the validity
\* flags passed in, null coordinates, is_multiple_match false, match_type null
\* and, as output_address, original_address when given, else the queried
\* address.
C8_NotFound ==
    (lk = "ais" /\ lk_pc \in {"returned", "failed"}
        /\ response.status_code = 404) =>
        /\ lk_pc = "returned"
        /\ result.is_addr = args.existing_is_addr
        /\ result.is_philly_addr = args.existing_is_philly_addr
        /\ result.geocode_lat = None /\ result.geocode_lon = None
        /\ result.is_multiple_match = FALSE
        /\ result.match_type = None
        /\ result.output_address =
               (IF args.original_address # None THEN args.original_address
                ELSE args.address)

\* A not-found answer for a call that passed an original address and flags.
C8_Witness ==
    /\ AisReturned
    /\ response.status_code = 404
    /\ args.original_address # None
    /\ args.existing_is_addr = TRUE
    /\ result.output_address = args.original_address

\* C9 as stated, for responses that are not intersections: when exactly one
\* candidate is returned, or exactly one survives the tiebreak, the attempt
\* returns the acceptance of that candidate (street address or the input
\* address, is_addr and is_philly_addr true, is_multiple_match false,
\* match_type "ais", its coordinates), a single candidate being accepted
\* without a look at its postal code.
C9_Accepts ==
    (/\ lk = "ais" /\ lk_pc \in {"returned", "failed"}
     /\ response.status_code = 200
     /\ response.search_type # "intersection"
     /\ \/ Len(response.features) = 1
        \/ AisMultiAddress /\ Cardinality(ZipHits) = 1) =>
        /\ lk_pc = "returned"
        /\ IF Len(response.features) = 1
           THEN AcceptedFrom(response.features[1])
           ELSE \A i \in ZipHits : AcceptedFrom(response.features[i])

\* C10: in every dict returned by ais_lookup and tomtom_lookup each
\* coordinate pair is all or nothing: geocode_lat is present and null exactly
\* when geocode_lon is, and geocode_x exactly when geocode_y is.
PairAllOrNothing(r, a, b) ==
    /\ (a \in DOMAIN r) <=> (b \in DOMAIN r)
    /\ (a \in DOMAIN r) => ((r[a] = None) <=> (r[b] = None))

MaxRows == 2

\* A null of a Boolean column, and a Boolean value in such a column.
Null == << >>
Some(v) == <<v>>
\* The Python value of a cell of a Boolean column.
Value(cell) == IF cell = Null THEN None ELSE cell[1]

\* The records of the input file: the full-address column, the street, city,
\* state and zip columns, an empty cell being read as null.  `undefined` is
\* what the location classifier reports as is_undefined for the record.
CsvRows ==
    {[full_address |-> None, street |-> None, city |-> None, state |-> None,
      zip |-> None, undefined |-> FALSE],
     [full_address |-> "1234 mkt st", street |-> "1234 mkt st",
      city |-> "PHILADELPHIA", state |-> "PA", zip |-> "19107",
      undefined |-> FALSE],
     [full_address |-> "1234 mkt st", street |-> "1234 mkt st",
      city |-> None, state |-> None, zip |-> None, undefined |-> TRUE],
     [full_address |-> "5 elm ave, lawnside, nj 08045", street |-> "5 elm ave",
      city |-> "LAWNSIDE", state |-> "NJ", zip |-> "08045",
      undefined |-> FALSE],
     [full_address |-> "dfdfa sdhl", street |-> "dfdfa sdhl",
      city |-> "PHILADELPHIA", state |-> "PA", zip |-> None,
      undefined |-> FALSE]}

\* The address files of the model: empty, one row with both coordinates, one
\* row that lacks the longitude, two rows for the same street address, and
\* two such rows of which the second lacks the longitude.
AddressFiles ==
    {<< >>,
     <<[street_address |-> "1234 MARKET ST", geocode_lat |-> "39.95",
        geocode_lon |-> "-75.16", zoning |-> "RSA5"]>>,
     <<[street_address |-> "1234 MARKET ST", geocode_lat |-> "39.95",
        geocode_lon |-> None, zoning |-> None]>>,
     <<[street_address |-> "1234 MARKET ST", geocode_lat |-> "39.95",
        geocode_lon |-> "-75.16", zoning |-> "RSA5"],
       [street_address |-> "1234 MARKET ST", geocode_lat |-> "39.96",
        geocode_lon |-> "-75.17", zoning |-> "RSA5"]>>,
     <<[street_address |-> "1234 MARKET ST", geocode_lat |-> "39.95",
        geocode_lon |-> "-75.16", zoning |-> "RSA5"],
       [street_address |-> "1234 MARKET ST", geocode_lat |-> "39.96",
        geocode_lon |-> None, zoning |-> None]>>}

\* mapping/ais_properties_fields.py: the enrichment fields that may be
\* requested, each with the column of the address file that holds it.
POSSIBLE_FIELDS ==
    [f \in {"zoning", "census_tract_2020"} |-> f]

\* The address_fields mappings of the config files of the model: no name at
\* all, no street, all four names, and a street column the input lacks.
AddressFieldConfigs ==
    {[street |-> s, city |-> c, state |-> c, zip |-> c] :
        s \in {None, "street", "street_x"}, c \in {None, "named"}}

\* The name a config gives to the city, state or zip column.
ColumnNamed(rec, key) == IF rec[key] = "named" THEN key ELSE rec[key]

\* The config files of the model.  address_fields is Null when the file has
\* no such section; srid_4326 and srid_2272 are Null when absent.
ConfigFiles ==
    [full_address_field : {None, "full_address", "address_x"},
     address_fields : {Null} \cup {Some(m) : m \in AddressFieldConfigs},
     enrichment_fields : {<< >>, <<"zoning">>, <<"zoning", "zoning">>,
                          <<"zoning", "census_tract_2020">>, <<"bogus">>,
                          <<"zoning", "bogus">>},
     srid_4326 : {Null, Some(TRUE), Some(FALSE)},
     srid_2272 : {Null, Some(TRUE), Some(FALSE)}]

\* The config files process_csv is run on: the coordinate flags absent, and
\* with full_address_field no name in address_fields.
Configs ==
    {c \in ConfigFiles :
        /\ c.srid_4326 = Null /\ c.srid_2272 = Null
        /\ c.enrichment_fields \in {<< >>, <<"zoning">>, <<"bogus">>}
        /\ c.address_fields # Null =>
               /\ c.address_fields[1].street # None =>
                      c.address_fields[1].city # None
               /\ c.full_address_field # None =>
                      /\ c.address_fields[1].street = None
                      /\ c.address_fields[1].city = None}

\* What the user types at the prompt of find_address_fields.
Responses == {"1", "2", "q"}

\* The dict find_address_fields returns, a key it lacks being Absent.
AddressFields(full_address, m) ==
    [full_address |-> full_address,
     street |-> IF m = Null THEN Absent ELSE m[1].street,
     city |-> IF m = Null THEN Absent ELSE ColumnNamed(m[1], "city"),
     state |-> IF m = Null THEN Absent ELSE ColumnNamed(m[1], "state"),
     zip |-> IF m = Null THEN Absent ELSE ColumnNamed(m[1], "zip")]

\* find_address_fields(config_path), resp being the answer to the prompt.
\* A config without the address_fields section makes addr_fields None, and
\* addr_fields.values() or addr_fields.get raises AttributeError.
find_address_fields(cfg, resp) ==
    LET full_addr == cfg.full_address_field
        addr_fields == cfg.address_fields
        any_value == \E k \in {"street", "city", "state", "zip"} :
                         Truthy(addr_fields[1][k])
        street_check ==
            IF addr_fields = Null THEN Raise("AttributeError")
            ELSE IF ~Truthy(addr_fields[1].street) THEN Raise("ValueError")
            ELSE Return(AddressFields(Absent, addr_fields))
    IN  IF ~Truthy(full_addr) /\ addr_fields = Null
        THEN Raise("AttributeError")
        ELSE IF ~Truthy(full_addr) /\ ~any_value THEN Raise("ValueError")
        ELSE IF Truthy(full_addr) /\ addr_fields # Null
        THEN IF resp = "1" THEN Return(AddressFields(full_addr, Null))
             ELSE IF resp = "2" THEN street_check
             ELSE Raise("SystemExit")
        ELSE street_check

\* The elements of a list.
Range(list) == {list[i] : i \in DOMAIN list}

\* build_enrichment_fields(config): ValueError on a field outside
\* POSSIBLE_FIELDS, else the set of the requested fields and the set of the
\* address-file columns.
build_enrichment_fields(cfg) ==
    LET requested == Range(cfg.enrichment_fields)
    IN  IF \E f \in requested : f \notin DOMAIN POSSIBLE_FIELDS
        THEN Raise("ValueError")
        ELSE Return(<<requested,
                      {POSSIBLE_FIELDS[f] : f \in requested}
                          \cup {"street_address", "geocode_lat", "geocode_lon"}>>)

\* lf.collect_schema().names() after scan_csv: the columns of the input
\* file, "zoning" among them when the file has such a column.
FileColumns(frame) ==
    {"full_address", "street", "city", "state", "zip"}
        \cup (IF frame # << >> /\ frame[1].zoning # Absent
               THEN {"zoning"} ELSE {})

\* A schema check that finds every configured column.
SchemaDiffNone(fields, frame) == {}

\* The names of address_fields that are no column of the input.
SchemaDiff(fields, frame) ==
    {fields[k] : k \in {x \in DOMAIN fields : Truthy(fields[x])}}
        \ FileColumns(frame)

\* uses_full_address = bool(address_fields.get("full_address"))
uses_full_address == Truthy(address_fields.full_address)

\* infer_city_state_field(config_path).get("full_address")
full_address_field == Truthy(config.full_address_field)

\* pl.scan_csv(filepath, row_index_name="__geocode_idx__", ...): the rows in
\* file order, numbered from 0.
ScanCsv(rows) == [i \in DOMAIN rows |-> rows[i] @@ [__geocode_idx__ |-> i - 1]]

\* pl.concat of the frames of a list.
RECURSIVE Concat(_)
Concat(frames) ==
    IF frames = << >> THEN << >> ELSE Head(frames) \o Concat(Tail(frames))

\* The frame left in the order of its concatenation.
KeepOrder(frame) == frame

\* frame.sort("__geocode_idx__")
SortByIdx(frame) ==
    LET rank(i) == Cardinality({j \in DOMAIN frame :
                        \/ frame[j].__geocode_idx__ < frame[i].__geocode_idx__
                        \/ /\ frame[j].__geocode_idx__ = frame[i].__geocode_idx__
                           /\ j <= i})
    IN  [k \in DOMAIN frame |-> frame[CHOOSE i \in DOMAIN frame : rank(i) = k]]

\* passyunk_address_field: the column handed to the parser.
AddressColumn(row) ==
    IF uses_full_address THEN row.full_address ELSE row.street

\* parser.parse(address)["components"]["address"]["isaddr"] on the texts of
\* the model.
PassyunkIsAddr(address) ==
    address \in {"1234 mkt st", "5 elm ave", "5 elm ave, lawnside, nj 08045"}

\* bool(parsed["street"]["street_code"]): the street is one of Philadelphia.
PassyunkStreetCode(address) == address = "1234 mkt st"

\* parse_address(parser, address)
parse_address(address) ==
    [output_address |-> IF PassyunkStreetCode(address)
                        THEN PassyunkOutput(address) ELSE address,
     is_addr |-> Some(PassyunkIsAddr(address)),
     is_philly_addr |-> Some(PassyunkStreetCode(address)),
     is_multiple_match |-> Some(FALSE),
     match_type |-> None]

\* The struct of nulls map_elements yields for a null cell: the function is
\* not called.
NullParse ==
    [output_address |-> None, is_addr |-> Null, is_philly_addr |-> Null,
     is_multiple_match |-> Null, match_type |-> None]

\* concat_str(..., separator=" ") with "" for null, runs of blanks replaced
\* by one and the ends stripped: the non-empty parts, one blank between.
RECURSIVE JoinWords(_)
JoinWords(parts) ==
    IF parts = << >> THEN ""
    ELSE IF ~Truthy(Head(parts)) THEN JoinWords(Tail(parts))
    ELSE IF JoinWords(Tail(parts)) = "" THEN Head(parts)
    ELSE Head(parts) \o " " \o JoinWords(Tail(parts))

\* The joined_address column.
JoinedAddress(row, output_address) ==
    IF uses_full_address THEN row.full_address
    ELSE IF output_address # None
    THEN JoinWords(<<output_address, row.city, row.state, row.zip>>)
    ELSE row.street

\* parse_with_passyunk_parser and the joined_address column, for one row.
ParsedRow(row) ==
    LET parsed == IF AddressColumn(row) = None THEN NullParse
                  ELSE parse_address(AddressColumn(row))
    IN  (row @@ parsed)
            @@ [joined_address |-> JoinedAddress(row, parsed.output_address)]

\* The location_info struct of one row.  In full-address mode the function is
\* mapped over the address column and is not called on a null cell; in
\* split mode it is mapped over the struct of city, state and zip.
LocationInfo(row) ==
    IF full_address_field
    THEN IF row.full_address = None
         THEN [is_non_philly |-> Null, is_undefined |-> Null]
         ELSE [is_non_philly |->
                   Some(flag_non_philly_address(
                            tag_full_address(row.full_address), ZIPS)),
               is_undefined |-> Some(row.undefined)]
    ELSE [is_non_philly |->
              Some(flag_non_philly_address(
                       [city |-> row.city, state |-> row.state, zip |-> row.zip],
                       ZIPS)),
          is_undefined |-> Some(row.undefined)]

\* A split that sends every classified row down the local branch.
split_as_local(frame) ==
    LET flagged == [i \in DOMAIN frame |-> frame[i] @@ LocationInfo(frame[i])]
    IN  <<SelectSeq(flagged, LAMBDA r : r.is_non_philly # Null), << >> >>

\* split_non_philly_address: (philly_lf, non_philly_lf).  A filter keeps the
\* rows whose predicate is true; a null predicate is not.
split_non_philly_address(frame) ==
    LET flagged == [i \in DOMAIN frame |-> frame[i] @@ LocationInfo(frame[i])]
    IN  <<SelectSeq(flagged, LAMBDA r : r.is_non_philly = Some(FALSE)),
          SelectSeq(flagged, LAMBDA r : r.is_non_philly = Some(TRUE))>>

\* The match_type column left as the join found it.
MarkNothing(row) == row

\* add_address_file_fields, the when/then/otherwise on match_type.
MarkAddressFile(row) ==
    IF row.geocode_lat # None
    THEN [row EXCEPT !.match_type = "address_file"] ELSE row

\* enrichment_col_names: the enrichment fields whose address-file column is
\* among the selected ones.
EnrichmentColNames(fields) ==
    {f \in DOMAIN POSSIBLE_FIELDS : POSSIBLE_FIELDS[f] \in fields}

\* conflicts: the enrichment names that are columns of the input already.
Conflicts(fields) == EnrichmentColNames(fields) \cap FileColumns(lf)

\* input_data.rename({field: field + "_left"}) for the conflicting fields.
RECURSIVE RenameLeft(_, _)
RenameLeft(row, conflicts) ==
    IF conflicts = {} THEN row
    ELSE LET f == CHOOSE x \in conflicts : TRUE
         IN  RenameLeft([row EXCEPT ![f \o "_left"] = row[f], ![f] = Absent],
                        conflicts \ {f})

\* The row of nulls a left join supplies when nothing matches.
NoHit ==
    [street_address |-> None, geocode_lat |-> None, geocode_lon |-> None,
     zoning |-> None]

\* The joined row: the columns selected from the row t of the address file,
\* under the names of the enrichment fields.
JoinedRow(row, fields, t) ==
    [k \in DOMAIN row |->
        IF k \in EnrichmentColNames(fields) THEN t[POSSIBLE_FIELDS[k]]
        ELSE row[k]]
        @@ [geocode_lat |-> t.geocode_lat, geocode_lon |-> t.geocode_lon]

\* The left join of one row on output_address = street_address: one row per
\* matching row of the address file, one row of nulls when there is none (a
\* null key matches nothing).
JoinRow(row, table, fields) ==
    LET hits == SelectSeq(table, LAMBDA t :
                    row.output_address # None
                    /\ t.street_address = row.output_address)
        renamed == RenameLeft(row, Conflicts(fields))
    IN  IF hits = << >>
        THEN <<JoinedRow(renamed, fields, NoHit)>>
        ELSE [k \in DOMAIN hits |-> JoinedRow(renamed, fields, hits[k])]

\* add_address_file_fields(geo_filepath, input_data, address_fields)
add_address_file_fields(table, input_data, fields) ==
    LET joined == Concat([i \in DOMAIN input_data |->
                              JoinRow(input_data[i], table, fields)])
    IN  [k \in DOMAIN joined |-> MarkAddressFile(joined[k])]

\* split_geos(data): (has_geo, needs_geo)
split_geos(data) ==
    <<SelectSeq(data, LAMBDA r : r.geocode_lat # None /\ r.geocode_lon # None),
      SelectSeq(data, LAMBDA r : r.geocode_lat = None \/ r.geocode_lon = None)>>

\* A row of non_philly_lf in pl.concat(..., how="diagonal") with needs_geo:
\* the columns only needs_geo has (the coordinates, the enrichment fields
\* the input does not have, the renamed input columns) are null.
DiagonalRow(row) ==
    [k \in DOMAIN row |->
        IF k \in EnrichmentColNames(address_file_enrichment_fields)
           /\ row[k] = Absent
        THEN None
        ELSE IF \E f \in Conflicts(address_file_enrichment_fields) :
                    k = f \o "_left"
        THEN None
        ELSE row[k]]
        @@ [geocode_lat |-> None, geocode_lon |-> None]

\* pl.concat(..., how="diagonal"): the columns a frame lacks are null.
Diagonal(frame) == [i \in DOMAIN frame |-> DiagonalRow(frame[i])]

\* The api_address column: the address with ", Philadelphia, PA" appended
\* when is_undefined and is_addr are both true.
ApiAddress(row, address) ==
    IF row.is_undefined = Some(TRUE) /\ row.is_addr = Some(TRUE)
    THEN IF address = None THEN None ELSE address \o ", Philadelphia, PA"
    ELSE address

\* The fields of a set as a list.
RECURSIVE ListOf(_)
ListOf(S) ==
    IF S = {} THEN << >>
    ELSE LET f == CHOOSE x \in S : TRUE IN <<f>> \o ListOf(S \ {f})

\* The arguments enrich_with_ais passes to ais_lookup for one row.
AisCall(row) ==
    [address |-> ApiAddress(row, row.output_address),
     zip |-> IF uses_full_address THEN None ELSE row.zip,
     enrichment_fields |-> ListOf(ais_enrichment_fields),
     existing_is_addr |-> Value(row.is_addr),
     existing_is_philly_addr |-> Value(row.is_philly_addr),
     original_address |-> row.output_address]

\* What the AIS search endpoint answers during the run: not found, a server
\* error, one candidate, one candidate without geometry, two candidates of
\* the same zip code.
BatchAisResponses ==
    LET found(f) == [status_code |-> 200, search_type |-> "address",
                     features |-> f, normalized |-> Absent]
        hit == [street_address |-> Street, zoning |-> "RSA5",
                zip_code |-> "11111", geometry |-> <<-75, 39>>]
        bare == [street_address |-> Street, zoning |-> "RSA5",
                 zip_code |-> "11111", geometry |-> << >>]
    IN  {ErrorResponse(404), ErrorResponse(500),
         found(<<hit>>), found(<<bare>>), found(<<hit, hit>>)}

\* How one attempt of ais_lookup ends on the answer resp.  A null address
\* raises TypeError at the concatenation of the URL.
AisAttempt(a, resp) ==
    IF a.address = None THEN Raise("TypeError")
    ELSE IF AisStatusRaises(resp) THEN Raise("Exception")
    ELSE IF resp.status_code # 200 THEN AisNoMatch(a)
    ELSE AisFinish(AisChoose(resp, a.zip), resp, a)

\* The dicts the decorated ais_lookup can return for a call.
AisLookupReturns(a) ==
    {AisAttempt(a, resp).value :
        resp \in {r \in BatchAisResponses : AisAttempt(a, r).kind = "return"}}

\* The decorated ais_lookup can raise: an attempt that raises can do so on
\* every retry.
AisLookupRaises(a) ==
    \E resp \in BatchAisResponses : AisAttempt(a, resp).kind = "raise"

\* The columns enrich_with_ais takes from the struct ais_lookup returned.
AisEnrichedRow(row, out) ==
    LET enrichment_fields == ListOf(ais_enrichment_fields)
        new_cols ==
            [row EXCEPT !.output_address = out.output_address,
                        !.is_addr = Some(out.is_addr),
                        !.is_philly_addr = Some(out.is_philly_addr),
                        !.geocode_lat = out.geocode_lat,
                        !.geocode_lon = out.geocode_lon,
                        !.is_multiple_match = Some(out.is_multiple_match),
                        !.match_type = out.match_type]
    IN  [k \in DOMAIN new_cols |->
            IF k \in ais_enrichment_fields
            THEN out.fields[CHOOSE i \in DOMAIN enrichment_fields :
                                enrichment_fields[i] = k]
            ELSE new_cols[k]]

\* The arguments enrich_with_tomtom passes to tomtom_lookup for one row; both
\* fetch flags keep their default.
TomTomCall(row) ==
    [address |-> ApiAddress(row, row.joined_address),
     fallback_addr |-> row.output_address,
     fetch_4326 |-> TRUE,
     fetch_2272 |-> TRUE]

\* What the TomTom endpoints answer during the run.
BatchTomTomResponses ==
    {TomTomError(500),
     [status_code |-> 200, candidates |-> << >>],
     [status_code |-> 200,
      candidates |-> <<[address |-> LawnsideMatch,
                        location |-> [x |-> <<-75>>, y |-> <<39>>]]>>]}

BatchProjectedResponses ==
    {[status_code |-> 200, candidates |-> << >>],
     [status_code |-> 200,
      candidates |-> <<[address |-> PhillyMatch,
                        location |-> [x |-> <<2694393>>, y |-> <<235982>>]]>>]}

\* How one attempt of tomtom_lookup ends on the answers resp and p of the
\* two requests.
TomTomAttempt(a, resp, p) ==
    IF ~Truthy(a.address) THEN Return(TomTomNoMatch(a))
    ELSE IF TomTomStatusRaises(resp) THEN Raise("Exception")
    ELSE IF ~TomTomHasCandidate(resp) THEN Return(TomTomNoMatch(a))
    ELSE IF TomTomStatusRaises(p) THEN Raise("Exception")
    ELSE TomTomProjected(TomTomMatched(resp, a), fetch_tomtom_coordinates(p))

\* The dicts the decorated tomtom_lookup can return for a call.
TomTomLookupReturns(a) ==
    {TomTomAttempt(a, rp[1], rp[2]).value :
        rp \in {x \in BatchTomTomResponses \X BatchProjectedResponses :
                    TomTomAttempt(a, x[1], x[2]).kind = "return"}}

\* The decorated tomtom_lookup can raise.
TomTomLookupRaises(a) ==
    \E resp \in BatchTomTomResponses, p \in BatchProjectedResponses :
        TomTomAttempt(a, resp, p).kind = "raise"

\* The columns enrich_with_tomtom takes from the struct tomtom_lookup
\* returned.
TomTomEnrichedRow(row, out) ==
    [row EXCEPT !.output_address = out.output_address,
                !.geocode_lat = out.geocode_lat,
                !.geocode_lon = out.geocode_lon,
                !.match_type = out.match_type,
                !.is_addr = Some(out.is_addr),
                !.is_philly_addr = Some(out.is_philly_addr)]

\* The input files: the records, without or with a column named "zoning".
InputFiles ==
    {[i \in DOMAIN rows |->
         rows[i] @@ [zoning |-> z, zoning_left |-> Absent]] :
        rows \in SeqsUpTo(CsvRows, MaxRows), z \in {Absent, "CMX2"}}

\* process_csv is called: the config file is loaded, nothing is staged.  lf
\* is the plan of scan_csv, the rows it will read.
PipelineStart ==
    /\ pl_pc = "find_address_fields"
    /\ config \in Configs
    /\ address_fields = << >>
    /\ ais_enrichment_fields = {}
    /\ address_file_enrichment_fields = {}
    /\ geography_file \in AddressFiles
    /\ lf \in {ScanCsv(rows) : rows \in InputFiles}
    /\ philly_lf = << >>
    /\ non_philly_lf = << >>
    /\ joined_lf = << >>
    /\ has_geo = << >>
    /\ needs_geo = << >>
    /\ ais_enriched = << >>
    /\ tomtom_enriched = << >>
    /\ rejoined = << >>

\* address_fields = find_address_fields(config_path): the dict, or the
\* exception process_csv ends with.
FindAddressFields ==
    /\ UNCHANGED outsidePipeline
    /\ pl_pc = "find_address_fields"
    /\ \E resp \in Responses :
          LET found == find_address_fields(config, resp)
          IN  IF found.kind = "return"
              THEN address_fields' = found.value /\ pl_pc' = "scan_csv"
              ELSE address_fields' = address_fields /\ pl_pc' = found.value
    /\ UNCHANGED <<config, ais_enrichment_fields, address_file_enrichment_fields,
                   geography_file, lf, philly_lf, non_philly_lf, joined_lf,
                   has_geo, needs_geo, ais_enriched, tomtom_enriched, rejoined>>

\* lf = pl.scan_csv(...) and the check of the configured address columns
\* against lf.collect_schema().names().
CheckAddressColumns ==
    /\ UNCHANGED outsidePipeline
    /\ pl_pc = "scan_csv"
    /\ pl_pc' = IF SchemaDiff(address_fields, lf) # {}
                THEN "ValueError" ELSE "build_enrichment_fields"
    /\ UNCHANGED <<cfgVars, geography_file, lf, philly_lf, non_philly_lf,
                   joined_lf, has_geo, needs_geo, ais_enriched, tomtom_enriched,
                   rejoined>>

\* ais_enrichment_fields, address_file_enrichment_fields =
\* build_enrichment_fields(config).  The statements between the schema check
\* and this call, and those after it up to sink_csv, only extend the lazy
\* plan: the stages below run when sink_csv executes it.
BuildEnrichmentFields ==
    /\ UNCHANGED outsidePipeline
    /\ pl_pc = "build_enrichment_fields"
    /\ LET built == build_enrichment_fields(config)
       IN  IF built.kind = "return"
           THEN /\ ais_enrichment_fields' = built.value[1]
                /\ address_file_enrichment_fields' = built.value[2]
                /\ pl_pc' = "parse"
           ELSE /\ UNCHANGED <<ais_enrichment_fields,
                               address_file_enrichment_fields>>
                /\ pl_pc' = built.value
    /\ UNCHANGED <<config, address_fields, geography_file, lf, philly_lf,
                   non_philly_lf, joined_lf, has_geo, needs_geo, ais_enriched,
                   tomtom_enriched, rejoined>>

\* lf = parse_with_passyunk_parser(...) and the joined_address column.
ParseWithPassyunkParser ==
    /\ UNCHANGED outsidePipeline
    /\ pl_pc = "parse"
    /\ lf' = [i \in DOMAIN lf |-> ParsedRow(lf[i])]
    /\ pl_pc' = "split"
    /\ UNCHANGED <<cfgVars, geography_file, philly_lf, non_philly_lf, joined_lf,
                   has_geo, needs_geo, ais_enriched, tomtom_enriched, rejoined>>

\* philly_lf, non_philly_lf = split_non_philly_address(config_path, lf)
SplitNonPhillyAddress ==
    /\ UNCHANGED outsidePipeline
    /\ pl_pc = "split"
    /\ philly_lf' = split_non_philly_address(lf)[1]
    /\ non_philly_lf' = split_non_philly_address(lf)[2]
    /\ pl_pc' = "join"
    /\ UNCHANGED <<cfgVars, geography_file, lf, joined_lf, has_geo, needs_geo,
                   ais_enriched, tomtom_enriched, rejoined>>

\* joined_lf = add_address_file_fields(geo_filepath, philly_lf, ...)
AddAddressFileFields ==
    /\ UNCHANGED outsidePipeline
    /\ pl_pc = "join"
    /\ joined_lf' = add_address_file_fields(geography_file, philly_lf,
                                            address_file_enrichment_fields)
    /\ pl_pc' = "split_geos"
    /\ UNCHANGED <<cfgVars, geography_file, lf, philly_lf, non_philly_lf, has_geo,
                   needs_geo, ais_enriched, tomtom_enriched, rejoined>>

\* has_geo, needs_geo = split_geos(joined_lf)
SplitGeos ==
    /\ UNCHANGED outsidePipeline
    /\ pl_pc = "split_geos"
    /\ has_geo' = split_geos(joined_lf)[1]
    /\ needs_geo' = split_geos(joined_lf)[2]
    /\ pl_pc' = "ais"
    /\ UNCHANGED <<cfgVars, geography_file, lf, philly_lf, non_philly_lf, joined_lf,
                   ais_enriched, tomtom_enriched, rejoined>>

\* enrich_with_ais: ais_lookup returns for the next row of needs_geo.
EnrichWithAisRow ==
    /\ UNCHANGED outsidePipeline
    /\ pl_pc = "ais"
    /\ Len(ais_enriched) < Len(needs_geo)
    /\ LET row == needs_geo[Len(ais_enriched) + 1]
       IN  \E out \in AisLookupReturns(AisCall(row)) :
              ais_enriched' = Append(ais_enriched, AisEnrichedRow(row, out))
    /\ UNCHANGED <<pl_pc, cfgVars, geography_file, lf, philly_lf, non_philly_lf,
                   joined_lf, has_geo, needs_geo, tomtom_enriched, rejoined>>

\* enrich_with_ais: ais_lookup raises after its last attempt and process_csv
\* ends with the exception, nothing written.
EnrichWithAisRaises ==
    /\ UNCHANGED outsidePipeline
    /\ pl_pc = "ais"
    /\ Len(ais_enriched) < Len(needs_geo)
    /\ AisLookupRaises(AisCall(needs_geo[Len(ais_enriched) + 1]))
    /\ pl_pc' = "aborted"
    /\ UNCHANGED <<cfgVars, geography_file, lf, philly_lf, non_philly_lf, joined_lf,
                   has_geo, needs_geo, ais_enriched, tomtom_enriched, rejoined>>

\* ais_rejoined = pl.concat([has_geo, ais_enriched]).sort(...), the second
\* split_geos, and the diagonal concat with non_philly_lf, sorted.
RejoinAis ==
    /\ UNCHANGED outsidePipeline
    /\ pl_pc = "ais"
    /\ Len(ais_enriched) = Len(needs_geo)
    /\ LET ais_rejoined == SortByIdx(Concat(<<has_geo, ais_enriched>>))
       IN  /\ has_geo' = split_geos(ais_rejoined)[1]
           /\ needs_geo' = SortByIdx(Concat(<<Diagonal(non_philly_lf),
                                              split_geos(ais_rejoined)[2]>>))
    /\ pl_pc' = "tomtom"
    /\ UNCHANGED <<cfgVars, geography_file, lf, philly_lf, non_philly_lf, joined_lf,
                   ais_enriched, tomtom_enriched, rejoined>>

\* enrich_with_tomtom: tomtom_lookup returns for the next row of needs_geo.
EnrichWithTomTomRow ==
    /\ UNCHANGED outsidePipeline
    /\ pl_pc = "tomtom"
    /\ Len(tomtom_enriched) < Len(needs_geo)
    /\ LET row == needs_geo[Len(tomtom_enriched) + 1]
       IN  \E out \in TomTomLookupReturns(TomTomCall(row)) :
              tomtom_enriched' =
                  Append(tomtom_enriched, TomTomEnrichedRow(row, out))
    /\ UNCHANGED <<pl_pc, cfgVars, geography_file, lf, philly_lf, non_philly_lf,
                   joined_lf, has_geo, needs_geo, ais_enriched, rejoined>>

\* enrich_with_tomtom: tomtom_lookup raises after its last attempt.
EnrichWithTomTomRaises ==
    /\ UNCHANGED outsidePipeline
    /\ pl_pc = "tomtom"
    /\ Len(tomtom_enriched) < Len(needs_geo)
    /\ TomTomLookupRaises(TomTomCall(needs_geo[Len(tomtom_enriched) + 1]))
    /\ pl_pc' = "aborted"
    /\ UNCHANGED <<cfgVars, geography_file, lf, philly_lf, non_philly_lf, joined_lf,
                   has_geo, needs_geo, ais_enriched, tomtom_enriched, rejoined>>

\* rejoined = pl.concat([has_geo, tomtom_enriched]).sort("__geocode_idx__"),
\* handed to sink_csv.
SinkCsv ==
    /\ UNCHANGED outsidePipeline
    /\ pl_pc = "tomtom"
    /\ Len(tomtom_enriched) = Len(needs_geo)
    /\ rejoined' = SortByIdx(Concat(<<has_geo, tomtom_enriched>>))
    /\ pl_pc' = "done"
    /\ UNCHANGED <<cfgVars, geography_file, lf, philly_lf, non_philly_lf, joined_lf,
                   has_geo, needs_geo, ais_enriched, tomtom_enriched>>

PipelineInit == RLStart /\ LKParked /\ PipelineStart /\ CLParked

PipelineNext ==
    \/ FindAddressFields
    \/ CheckAddressColumns
    \/ BuildEnrichmentFields
    \/ ParseWithPassyunkParser
    \/ SplitNonPhillyAddress
    \/ AddAddressFileFields
    \/ SplitGeos
    \/ EnrichWithAisRow
    \/ EnrichWithAisRaises
    \/ RejoinAis
    \/ EnrichWithTomTomRow
    \/ EnrichWithTomTomRaises
    \/ SinkCsv

SpecPipeline == PipelineInit /\ [][PipelineNext]_vars

\* The configuration steps of process_csv alone, on every config file of the
\* model and an input file without records.
ConfigStart ==
    /\ pl_pc = "find_address_fields"
    /\ config \in ConfigFiles
    /\ address_fields = << >>
    /\ ais_enrichment_fields = {}
    /\ address_file_enrichment_fields = {}
    /\ geography_file = << >>
    /\ lf = << >>
    /\ philly_lf = << >>
    /\ non_philly_lf = << >>
    /\ joined_lf = << >>
    /\ has_geo = << >>
    /\ needs_geo = << >>
    /\ ais_enriched = << >>
    /\ tomtom_enriched = << >>
    /\ rejoined = << >>

ConfigInit == RLStart /\ LKParked /\ ConfigStart /\ CLParked

ConfigNext ==
    \/ FindAddressFields
    \/ CheckAddressColumns
    \/ BuildEnrichmentFields

SpecConfig == ConfigInit /\ [][ConfigNext]_vars

(***************************************************************************)
(* Properties of process_csv                                               *)
(***************************************************************************)
\* The row indexes assigned at ingestion.
InputIdx == {lf[i].__geocode_idx__ : i \in DOMAIN lf}

\* The rows of the output that carry the row index n.
OutputRows(n) == {k \in DOMAIN rejoined : rejoined[k].__geocode_idx__ = n}

\* C2 as stated: when process_csv has written its output, every row index
\* assigned at ingestion is in the output exactly once, and the output has as
\* many rows as the input.
C2_OneRowPerInput ==
    pl_pc = "done" =>
        /\ \A n \in InputIdx : Cardinality(OutputRows(n)) = 1
        /\ Len(rejoined) = Len(lf)

\* C3: the rows handed to the sink are in ascending order of the original
\* row index, whichever stage resolved each of them.
C3_OutputInInputOrder ==
    pl_pc = "done" =>
        \A j, k \in DOMAIN rejoined :
            j < k => rejoined[j].__geocode_idx__ <= rejoined[k].__geocode_idx__

\* A later row was resolved by the address file and an earlier one went
\* through TomTom, so the concatenation before the final sort is out of order.
C3_Witness ==
    /\ pl_pc = "done"
    /\ \E j \in DOMAIN has_geo, k \in DOMAIN tomtom_enriched :
          /\ has_geo[j].match_type = "address_file"
          /\ has_geo[j].__geocode_idx__ > tomtom_enriched[k].__geocode_idx__

\* The rows of the address file a parsed row matches.
TableHits(row) ==
    {k \in DOMAIN geography_file :
        row.output_address # None
        /\ geography_file[k].street_address = row.output_address}

\* The rows of the input flagged local whose output_address is the
\* street_address of exactly one row of the address file, that row carrying
\* both coordinates.
ReferenceMatched ==
    {i \in DOMAIN lf :
        /\ \E r \in {philly_lf[k] : k \in DOMAIN philly_lf} :
              r.__geocode_idx__ = lf[i].__geocode_idx__
        /\ Cardinality(TableHits(lf[i])) = 1
        /\ \A k \in TableHits(lf[i]) :
              /\ geography_file[k].geocode_lat # None
              /\ geography_file[k].geocode_lon # None}

\* The row carries match_type "address_file" and the coordinates of the one
\* row of the address file it matches.
FromAddressFile(row, i) ==
    /\ row.match_type = "address_file"
    /\ \A k \in TableHits(lf[i]) :
          /\ row.geocode_lat = geography_file[k].geocode_lat
          /\ row.geocode_lon = geography_file[k].geocode_lon
    /\ row.geocode_lat # None /\ row.geocode_lon # None

NonLocalIdx ==
    {lf[i].__geocode_idx__ :
        i \in {k \in DOMAIN lf : LocationInfo(lf[k]).is_non_philly = Some(TRUE)}}

\* The row indices of a frame.
IdxOf(frame) == {frame[k].__geocode_idx__ : k \in DOMAIN frame}

NoAddressField ==
    /\ ~Truthy(config.full_address_field)
    /\ config.address_fields # Null
    /\ \A k \in {"street", "city", "state", "zip"} :
          ~Truthy(config.address_fields[1][k])

\* The config gives split address fields and no street among them.
NoStreet ==
    /\ ~Truthy(config.full_address_field)
    /\ config.address_fields # Null
    /\ ~Truthy(config.address_fields[1].street)
    /\ \E k \in {"city", "state", "zip"} : Truthy(config.address_fields[1][k])

\* A configured address column is no column of the input file.
ColumnAbsent ==
    /\ address_fields # << >>
    /\ \E k \in DOMAIN address_fields :
          /\ Truthy(address_fields[k])
          /\ address_fields[k] \notin FileColumns(lf)

\* A requested enrichment field is outside the allow-list.
FieldNotAllowed ==
    \E f \in Range(config.enrichment_fields) : f \notin DOMAIN POSSIBLE_FIELDS

\* No record has been parsed, classified, joined, looked up or written.
NothingProcessed ==
    /\ \A i \in DOMAIN lf : "output_address" \notin DOMAIN lf[i]
    /\ philly_lf = << >> /\ non_philly_lf = << >> /\ joined_lf = << >>
    /\ has_geo = << >> /\ needs_geo = << >>
    /\ ais_enriched = << >> /\ tomtom_enriched = << >>
    /\ rejoined = << >>

C24_FieldsOnEveryRecord ==
    /\ \A k \in DOMAIN ais_enriched :
          (ais_enriched[k].geocode_lat = None
           /\ (ais_enriched[k].match_type = None
               \/ ais_enriched[k].is_multiple_match = Some(TRUE))) =>
              \A f \in ais_enrichment_fields : ais_enriched[k][f] = None
    /\ pl_pc = "done" =>
          \A k \in DOMAIN rejoined :
              \A f \in ais_enrichment_fields :
                  /\ rejoined[k][f] # Absent
                  /\ rejoined[k].__geocode_idx__ \in NonLocalIdx =>
                         rejoined[k][f] = None

\* The row of the parsed input that an output row comes from.
InputRow(row) == lf[row.__geocode_idx__ + 1]

\* C25 as stated: when the input has a column named like a requested
\* enrichment field, every output record, local or not, keeps the input's
\* value under the name with the suffix "_left", and its column of the
\* enrichment name holds an enrichment value or null, never the input's
\* value.
C25_InputKeptAside ==
    pl_pc = "done" =>
        \A k \in DOMAIN rejoined :
            \A f \in Conflicts(address_file_enrichment_fields) :
                /\ rejoined[k][f \o "_left"] = InputRow(rejoined[k])[f]
                /\ rejoined[k][f] \notin {InputRow(rejoined[k])[f], Absent}

HasCoordinates(row) == row.geocode_lat # None /\ row.geocode_lon # None

\* The row indices of the rows of a frame that have both coordinates.
ResolvedIdx(frame) ==
    {frame[k].__geocode_idx__ : k \in {j \in DOMAIN frame : HasCoordinates(frame[j])}}

\* C26 as stated: a record the address file resolved is never submitted to
\* ais_lookup or tomtom_lookup, a record ais_lookup resolved is never
\* submitted to tomtom_lookup, every record ais_lookup left without
\* coordinates is submitted to tomtom_lookup, and in the output match_type
\* names the one stage that supplied the coordinates and is null on a record
\* without coordinates.
C26_OneStageResolves ==
    /\ pl_pc \in {"ais", "tomtom", "done", "aborted"} =>
          /\ ResolvedIdx(joined_lf) \cap IdxOf(ais_enriched) = {}
          /\ ResolvedIdx(joined_lf) \cap IdxOf(tomtom_enriched) = {}
          /\ ResolvedIdx(joined_lf) \cap IdxOf(needs_geo) = {}
          /\ ResolvedIdx(ais_enriched) \cap IdxOf(tomtom_enriched) = {}
    /\ pl_pc \in {"tomtom", "done"} =>
          /\ ResolvedIdx(ais_enriched) \cap IdxOf(needs_geo) = {}
          /\ IdxOf(ais_enriched) \ ResolvedIdx(ais_enriched)
                 \subseteq IdxOf(needs_geo)
    /\ pl_pc = "done" =>
          /\ IdxOf(needs_geo) = IdxOf(tomtom_enriched)
          /\ \A k \in DOMAIN rejoined :
                LET row == rejoined[k]
                    idx == row.__geocode_idx__
                IN  IF HasCoordinates(row)
                    THEN \/ /\ row.match_type = "address_file"
                            /\ idx \in ResolvedIdx(joined_lf)
                         \/ /\ row.match_type = "ais"
                            /\ idx \in ResolvedIdx(ais_enriched)
                         \/ /\ row.match_type = "tomtom"
                            /\ idx \in ResolvedIdx(tomtom_enriched)
                    ELSE row.match_type = None

\* A coordinate flag of the config is on: true, or absent.
FlagOn(flag) == flag = Null \/ flag = Some(TRUE)

\* C22 as stated: build_enrichment_fields returns the set of the requested
\* fields and the set of the address-file columns: the mapped fields, then
\* street_address, geocode_lat and geocode_lon when srid_4326 is on,
\* geocode_x and geocode_y when srid_2272 is on, a flag that is absent being
\* on.
C22_FieldsFollowSrids ==
    pl_pc = "parse" =>
        /\ ais_enrichment_fields = Range(config.enrichment_fields)
        /\ address_file_enrichment_fields =
               {POSSIBLE_FIELDS[f] : f \in Range(config.enrichment_fields)}
                   \cup {"street_address"}
                   \cup (IF FlagOn(config.srid_4326)
                         THEN {"geocode_lat", "geocode_lon"} ELSE {})
                   \cup (IF FlagOn(config.srid_2272)
                         THEN {"geocode_x", "geocode_y"} ELSE {})

(***************************************************************************)
(* Properties of the coordinate flags, the rate limiting and the retries   *)
(***************************************************************************)
\* The lookup has ended for its caller: it returned, or raised for good.
LookupEnded == lk_pc \in {"returned", "raised"}

\* The keys of the result follow the flags of the call.
KeysFollowFlags ==
    /\ ({"geocode_lat", "geocode_lon"} \subseteq DOMAIN result) <=> args.fetch_4326
    /\ ({"geocode_lat", "geocode_lon"} \cap DOMAIN result = {}) <=> ~args.fetch_4326
    /\ ({"geocode_x", "geocode_y"} \subseteq DOMAIN result) <=> args.fetch_2272
    /\ ({"geocode_x", "geocode_y"} \cap DOMAIN result = {}) <=> ~args.fetch_2272

\* C11 as stated: a call of ais_lookup that passes fetch_4326 and fetch_2272
\* returns, and its result has geocode_lat/geocode_lon exactly when
\* fetch_4326 is set and geocode_x/geocode_y exactly when fetch_2272 is.
C11_AisFlags ==
    (lk = "ais" /\ ~AisBinds(args) /\ LookupEnded) =>
        /\ lk_pc = "returned"
        /\ KeysFollowFlags

C13_RequestsAdmitted ==
    lk \in {"ais", "tomtom"} => sent <= admits

\* stop_max_attempt_number of the lookup under way.
MaxAttempts == IF lk = "ais" THEN AisMaxAttempts ELSE TomTomMaxAttempts

\* What @retry allows a step of a lookup to be: a failed attempt is followed
\* by the next attempt below the cap and by the raise at the cap, a result is
\* returned by the attempt under way, and an ended lookup takes no step.
RetryStep ==
    /\ lk_pc = "failed" =>
           IF attempt < MaxAttempts
           THEN attempt' = attempt + 1 /\ lk_pc' = "call"
           ELSE attempt' = attempt /\ lk_pc' = "raised"
    /\ lk_pc' = "returned" =>
           /\ lk_pc \in {"call", "reverse", "projected"}
           /\ attempt' = attempt
           /\ result' # NoResult
    /\ ~LookupEnded

\* C14: an attempt that fails (the service answered 5xx or 429) is retried
\* while fewer than the cap (3 for ais_lookup, 5 for tomtom_lookup) were
\* made; the number of attempts never exceeds the cap; when every attempt
\* fails the lookup raises after exactly cap attempts; an attempt that
\* succeeds returns its result and nothing is attempted after it.
C14_RetryBounded ==
    /\ [](lk \in {"ais", "tomtom"} =>
            /\ attempt <= MaxAttempts
            /\ lk_pc = "raised" => attempt = MaxAttempts)
    /\ [][RetryStep]_lkVars

\* Every attempt of ais_lookup was answered 5xx or 429 and the lookup raised.
C14_Witness ==
    /\ lk = "ais" /\ lk_pc = "raised"
    /\ attempt = AisMaxAttempts
    /\ response.status_code \in {429, 500}

\* C15 as stated: a 401 answer of AIS, to the search or to a reverse
\* lookup, is an error and not a no-match result, and it is not retried: the
\* lookup raises with no further attempt.
C15_UnauthorizedAborts ==
    /\ [](lk = "ais" /\ response # << >> /\ response.status_code = 401 =>
             lk_pc \in {"failed", "raised"})
    /\ [][(lk = "ais" /\ error = InvalidApiKey) => lk_pc' = "raised"]_lkVars

\* tomtom_lookup returned and its search request had a candidate.
TomTomAccepted ==
    /\ lk = "tomtom" /\ lk_pc = "returned"
    /\ response # << >>
    /\ TomTomHasCandidate(response)

TomTomMissed ==
    /\ lk = "tomtom" /\ lk_pc \in {"returned", "failed", "raised"}
    /\ \/ ~Truthy(args.address)
       \/ /\ response # << >>
          /\ response.status_code < 500 /\ response.status_code # 429
          /\ (response.status_code # 200 \/ response.candidates = << >>)

\* C20: when the search yields no candidate (a status other than 200 below
\* 500 and not 429, an empty candidate list, or an empty query address)
\* tomtom_lookup returns without raising; output_address is the fallback
\* address, or the queried address when there is none, match_type is null,
\* is_addr and is_philly_addr are false and every requested coordinate field
\* is null.
C20_NoCandidate ==
    TomTomMissed =>
        /\ lk_pc = "returned"
        /\ result.output_address =
               (IF args.fallback_addr \notin {None, ""}
                THEN args.fallback_addr ELSE args.address)
        /\ result.match_type = None
        /\ result.is_addr = FALSE
        /\ result.is_philly_addr = FALSE
        /\ KeysFollowFlags
        /\ \A key \in DOMAIN result \cap {"geocode_lat", "geocode_lon",
                                          "geocode_x", "geocode_y"} :
               result[key] = None

\* A 404 answer with no fallback address: the queried address is returned.
C20_Witness ==
    /\ TomTomMissed
    /\ response # << >> /\ response.status_code = 404
    /\ args.fallback_addr = None
    /\ args.fetch_4326 /\ args.fetch_2272
    /\ result.output_address = args.address

\* ais_lookup returned on a 200 answer of the search.
AisReturnedOk ==
    /\ lk = "ais" /\ lk_pc = "returned"
    /\ response.status_code = 200

\* C28 as stated: a 200 answer with an empty candidate list is a no-match
\* outcome, with null coordinates, match_type null and is_multiple_match
\* false; is_multiple_match is true only when the answer held more than one
\* candidate.
C28_EmptyIsNoMatch ==
    AisReturnedOk =>
        /\ response.features = << >> =>
               /\ result.geocode_lat = None /\ result.geocode_lon = None
               /\ result.match_type = None
               /\ result.is_multiple_match = FALSE
        /\ result.is_multiple_match = TRUE => Len(response.features) > 1

\* ais_lookup returned on an intersection answer, after its reverse lookups.
AisIntersectionReturned ==
    AisReturnedOk /\ response.search_type = "intersection"

\* The candidates of all reverse lookups of the call, in order.
ReverseFeatures == Concat([i \in DOMAIN out_data |-> out_data[i].features])

\* The reverse-lookup candidates that carry the query postal code.
ReverseZipHits ==
    SelectSeq(ReverseFeatures, LAMBDA c : c.zip_code = args.zip)

\* The reverse-lookup candidates the code lets survive: those with the query
\* postal code, all of them when no postal code is given.
ReverseSurvivors ==
    IF args.zip = None THEN ReverseFeatures ELSE ReverseZipHits

\* The result is the accepted candidate c.
AisResultFrom(c) ==
    /\ result.is_multiple_match = FALSE
    /\ result.match_type = "ais"
    /\ result.geocode_lat = Str(c.geometry[2])
    /\ result.geocode_lon = Str(c.geometry[1])

\* The result is the failed tiebreak.
AisResultAmbiguous ==
    /\ result.is_multiple_match = TRUE
    /\ result.geocode_lat = None /\ result.geocode_lon = None

\* One reverse lookup was made for every feature with a geometry.
EveryGeometryLookedUp ==
    Len(out_data) =
        Cardinality({i \in DOMAIN response.features :
                        response.features[i].geometry # << >>})

\* C29 as stated: on an intersection answer every candidate geometry is
\* reverse-geocoded, a candidate is accepted only when exactly one
\* reverse-lookup candidate has the query postal code, and the lookup fails
\* with is_multiple_match true and null coordinates when none or several
\* do, also when no query postal code is given.
C29_SingleSurvivor ==
    AisIntersectionReturned =>
        /\ EveryGeometryLookedUp
        /\ IF Len(ReverseZipHits) = 1
           THEN AisResultFrom(ReverseZipHits[1])
           ELSE AisResultAmbiguous

\* C29 amended: on an intersection answer every candidate geometry is
\* reverse-geocoded and the first reverse-lookup candidate that has the
\* query postal code, or the first candidate at all when no postal code is
\* given, is accepted however many there are; the lookup fails with
\* is_multiple_match true and null coordinates only when there is none.
C29_FirstSurvivor ==
    AisIntersectionReturned =>
        /\ EveryGeometryLookedUp
        /\ IF ReverseSurvivors # << >>
           THEN AisResultFrom(ReverseSurvivors[1])
           ELSE AisResultAmbiguous

\* Two reverse lookups each found a candidate with the query postal code, at
\* different coordinates, and the first was accepted.
C29_Witness ==
    /\ AisIntersectionReturned
    /\ args.zip # None
    /\ Len(ReverseZipHits) = 2
    /\ ReverseZipHits[1].geometry # ReverseZipHits[2].geometry
    /\ AisResultFrom(ReverseZipHits[1])

\* C27 as stated: every attempt of a throttled lookup (the primary one
\* entered by throttle_ais_lookup, the secondary one) that has sent a request
\* has acquired an admission from the rate limiter in that same attempt.
C27_RetryReacquires ==
    (via \in {"throttle_ais_lookup", "tomtom_lookup"} /\ sent >= 1)
        => admits >= 1

(***************************************************************************)
(* One call of the jurisdiction classifier (utils/parse_address.py)        *)
(***************************************************************************)
\* The city, state and zip texts a call is made with: absent, empty, the
\* names of Philadelphia and Pennsylvania in several spellings, another
\* city and state, zip codes in and out of ZIPS, bare, padded and ZIP+4.
Cities == {None, "", "PHILADELPHIA", " Phila ", "philly", "LAWNSIDE"}
States == {None, "", "PA", " pa ", "Penn", "NJ"}
ZipCodes == {None, "", "19107", " 19107 ", "19107-3409", "08045"}
AddressDicts == [city : Cities, state : States, zip : ZipCodes]

\* The address texts is_non_philly_from_full_address is called with.
FullAddresses ==
    {None, PhillyMatch, LawnsideMatch, "5 elm ave, lawnside, nj 08045",
     "1234 mkt st"}

\* is_non_philly_from_full_address(address, philly_zips=...)
is_non_philly_from_full_address(address, philly_zips) ==
    IF address = None THEN FALSE
    ELSE flag_non_philly_address(tag_full_address(address), philly_zips)

\* is_non_philly_from_split_address(address_data, zips=...); the struct is
\* << >> when null, else the one-tuple of its dict.
is_non_philly_from_split_address(address_data, zips) ==
    IF address_data = << >> THEN FALSE
    ELSE flag_non_philly_address(address_data[1], zips)

\* One of the three functions is called.
ClassifierInit ==
    /\ cl_pc = "call"
    /\ cl_result = << >>
    /\ \/ /\ cl_fn = "flag_non_philly_address"
          /\ cl_address = None
          /\ cl_struct \in {<<d>> : d \in AddressDicts}
       \/ /\ cl_fn = "is_non_philly_from_full_address"
          /\ cl_address \in FullAddresses
          /\ cl_struct = << >>
       \/ /\ cl_fn = "is_non_philly_from_split_address"
          /\ cl_address = None
          /\ cl_struct \in {<< >>} \cup {<<d>> : d \in AddressDicts}

FlagNonPhillyAddress ==
    /\ UNCHANGED outsideClassifier
    /\ cl_pc = "call" /\ cl_fn = "flag_non_philly_address"
    /\ cl_result' = <<flag_non_philly_address(cl_struct[1], ZIPS)>>
    /\ cl_pc' = "returned"
    /\ UNCHANGED <<cl_fn, cl_address, cl_struct>>

IsNonPhillyFromFullAddress ==
    /\ UNCHANGED outsideClassifier
    /\ cl_pc = "call" /\ cl_fn = "is_non_philly_from_full_address"
    /\ cl_result' = <<is_non_philly_from_full_address(cl_address, ZIPS)>>
    /\ cl_pc' = "returned"
    /\ UNCHANGED <<cl_fn, cl_address, cl_struct>>

IsNonPhillyFromSplitAddress ==
    /\ UNCHANGED outsideClassifier
    /\ cl_pc = "call" /\ cl_fn = "is_non_philly_from_split_address"
    /\ cl_result' = <<is_non_philly_from_split_address(cl_struct, ZIPS)>>
    /\ cl_pc' = "returned"
    /\ UNCHANGED <<cl_fn, cl_address, cl_struct>>

ClassifyInit == RLStart /\ LKParked /\ PLParked /\ ClassifierInit

ClassifyNext ==
    \/ FlagNonPhillyAddress
    \/ IsNonPhillyFromFullAddress
    \/ IsNonPhillyFromSplitAddress

SpecClassify == ClassifyInit /\ [][ClassifyNext]_vars

\* The city, state and zip the classifier decides on in the call under way:
\* the dict it was given, or what tag_full_address tags in the address text.
Classified ==
    IF cl_fn = "is_non_philly_from_full_address"
    THEN tag_full_address(cl_address)
    ELSE cl_struct[1]

\* The call reached flag_non_philly_address and has returned.
ClassifierReturned ==
    /\ cl_pc = "returned"
    /\ IF cl_fn = "is_non_philly_from_full_address"
       THEN cl_address # None ELSE cl_struct # << >>

\* The spellings of the model that name Philadelphia and Pennsylvania once
\* case and surrounding whitespace are ignored.
CityMatches(city) ==
    city \in {"PHILADELPHIA", " Phila ", "philly", "philadelphia"}
StateMatches(state) == state \in {"PA", " pa ", "Penn", "pa"}

\* C17: when the city and the state both name the jurisdiction the address
\* is local whatever the zip code; when a city is present and does not, or a
\* state is present and does not, the address is non-local whatever the zip
\* code; the comparison ignores case and surrounding whitespace.
C17_CityStateDecide ==
    ClassifierReturned =>
        LET d == Classified
        IN  /\ (CityMatches(d.city) /\ StateMatches(d.state))
                   => cl_result = <<FALSE>>
            /\ ((d.city # None /\ ~CityMatches(d.city))
                \/ (d.state # None /\ ~StateMatches(d.state)))
                   => cl_result = <<TRUE>>

\* A padded, mixed-case city and state with a zip code outside ZIPS are
\* classified local.
C17_Witness ==
    /\ ClassifierReturned
    /\ cl_fn = "flag_non_philly_address"
    /\ Classified = [city |-> " Phila ", state |-> " pa ", zip |-> "08045"]
    /\ cl_result = <<FALSE>>

\* The zip codes of the model whose first five characters, once trimmed, are
\* in ZIPS.
ZipInJurisdiction(zip) == zip \in {"19107", " 19107 ", "19107-3409"}

\* City and state do not decide: neither is present and mismatching, and
\* they do not both match.
CityStateUndecided(d) ==
    /\ d.city = None \/ CityMatches(d.city)
    /\ d.state = None \/ StateMatches(d.state)
    /\ ~(CityMatches(d.city) /\ StateMatches(d.state))

\* C18: when city and state do not decide, the address is local exactly when
\* it has no zip code or the first five characters of the trimmed zip code
\* are in the jurisdiction's set; a null free-text address and a null split
\* struct are classified local.
C18_ZipFallback ==
    /\ ClassifierReturned =>
          LET d == Classified
          IN  CityStateUndecided(d) =>
                  (cl_result = <<FALSE>>
                      <=> (d.zip = None \/ ZipInJurisdiction(d.zip)))
    /\ (cl_pc = "returned" /\ ~ClassifierReturned) => cl_result = <<FALSE>>

\* No city, a matching state and a padded zip code of the jurisdiction.
C18_Witness ==
    /\ ClassifierReturned
    /\ cl_fn = "is_non_philly_from_split_address"
    /\ Classified = [city |-> None, state |-> "PA", zip |-> " 19107 "]
    /\ cl_result = <<FALSE>>

====
